---- MODULE Spec2Model ----
(***************************************************************************)
(* Verification model of the WhisperSermons quote-review core:             *)
(*   - the quote-review reducer (contexts/QuoteReviewContext),             *)
(*   - the boundary-mutation and quote-creation hooks with their debounce  *)
(*     timers and in-flight verse lookups,                                 *)
(*   - the QuoteBoundaryEditor handle debounce,                            *)
(*   - the UI handlers that push quote actions to the editor/AST,          *)
(*   - the interjection detection workflow,                                *)
(*   - the document context's undo/redo stacks.                            *)
(* JavaScript null is modelled by Null (strings), NullId (node ids),       *)
(* NoOffset (numbers) and NullRec (objects).                               *)
(***************************************************************************)
EXTENDS Integers, Sequences, FiniteSets, Bags, TLC

\* ------------------------------------------------------------------------
\* Bounds of the model
\* ------------------------------------------------------------------------
MaxQuotes == 2
MaxSteps == 3
MaxTimers == 3
MaxInflight == 2
MaxUndoDepth == 2
MaxRoots == 3
MaxCandidates == 3
MaxCreated == 1
MaxMergeIds == 3
MaxBlocks == 2
MaxEmitted == 2
MaxLog == 2

\* Documents the provider is switched between
DocumentIds == {"docA", "docB"}

\* ------------------------------------------------------------------------
\* Program constants
\* ------------------------------------------------------------------------
DEFAULT_PANEL_WIDTH == 320
SIGNIFICANT_CHANGE_THRESHOLD == 5
OffsetStep == 3

Null == "null"
NullId == 0
NoOffset == -1
NullRec == [null |-> TRUE]

QuoteIds == 1..MaxQuotes
Offsets == {k * OffsetStep : k \in 0..MaxSteps}
Edges == {"start", "end"}
References == {"John 3:16", "Mark 1:1"}

\* ------------------------------------------------------------------------
\* Generic helpers
\* ------------------------------------------------------------------------
\* { ...q, ...updates }
Spread(q, updates) ==
  [f \in (DOMAIN q) \cup (DOMAIN updates) |->
     IF f \in DOMAIN updates THEN updates[f] ELSE q[f]]

Abs(n) == IF n < 0 THEN -n ELSE n

\* ------------------------------------------------------------------------
\* Reducer: initial state
\* ------------------------------------------------------------------------
initialReviewState ==
  [isReviewModeActive |-> FALSE, focusedQuoteId |-> NullId,
   reviewedQuoteIds |-> {}, panelOpen |-> FALSE,
   panelWidth |-> DEFAULT_PANEL_WIDTH, bannerDismissed |-> FALSE]

initialBoundaryEditState ==
  [isActive |-> FALSE, quoteId |-> NullId, previewStartOffset |-> NoOffset,
   previewEndOffset |-> NoOffset, lastChangeTimestamp |-> NoOffset]

initialBoundaryDragState ==
  [isDragging |-> FALSE, edge |-> Null, originalOffset |-> 0,
   currentOffset |-> 0, quoteId |-> NullId, wouldMergeParagraphs |-> FALSE,
   paragraphsToMerge |-> <<>>]

initialCreationState ==
  [isCreating |-> FALSE, selectedText |-> "", selectedRange |-> NullRec,
   referenceInput |-> "", lookupResult |-> NullRec, isLookingUp |-> FALSE,
   isNonBiblical |-> FALSE, spannedParagraphIds |-> <<>>]

initialInterjectionEditState ==
  [isActive |-> FALSE, quoteId |-> NullId, pendingCandidates |-> <<>>,
   selectedText |-> Null, selectionRange |-> NullRec]

initialPanelFilterState ==
  [mode |-> "all", selectedBook |-> Null, searchQuery |-> ""]

initialState ==
  [quotes |-> <<>>, review |-> initialReviewState,
   boundaryEdit |-> initialBoundaryEditState,
   boundaryDrag |-> initialBoundaryDragState,
   creation |-> initialCreationState,
   interjectionEdit |-> initialInterjectionEditState,
   panelFilter |-> initialPanelFilterState]

\* ------------------------------------------------------------------------
\* Reducer: one operator per case of the switch
\* ------------------------------------------------------------------------
ReduceSetQuotes(s, a) == [s EXCEPT !.quotes = a.payload]

ReduceAddQuote(s, a) == [s EXCEPT !.quotes = Append(s.quotes, a.payload)]

\* Variant: an update for an unknown id inserts the item (upsert)
ReduceUpdateQuoteUpsert(s, a) ==
  IF \E i \in DOMAIN s.quotes : s.quotes[i].id = a.payload.quoteId
  THEN [s EXCEPT !.quotes =
          [i \in DOMAIN s.quotes |->
             IF s.quotes[i].id = a.payload.quoteId
             THEN Spread(s.quotes[i], a.payload.updates)
             ELSE s.quotes[i]]]
  ELSE [s EXCEPT !.quotes =
          Append(s.quotes,
                 Spread([id |-> a.payload.quoteId], a.payload.updates))]

ReduceUpdateQuote(s, a) ==
  [s EXCEPT !.quotes =
     [i \in DOMAIN s.quotes |->
        IF s.quotes[i].id = a.payload.quoteId
        THEN Spread(s.quotes[i], a.payload.updates)
        ELSE s.quotes[i]]]

ReduceRemoveQuote(s, a) ==
  LET Keep(q) == q.id # a.payload IN
  [s EXCEPT !.quotes = SelectSeq(s.quotes, Keep),
            !.review.focusedQuoteId =
               IF s.review.focusedQuoteId = a.payload THEN NullId
               ELSE s.review.focusedQuoteId]

ReduceMarkQuoteReviewed(s, a) ==
  [s EXCEPT !.review.reviewedQuoteIds = @ \cup {a.payload}]

\* Variant: entering boundary-edit mode also resets the drag
ReduceEnterBoundaryEditModeResetsDrag(s, a) ==
  [s EXCEPT !.boundaryEdit =
     [isActive |-> TRUE, quoteId |-> a.payload,
      previewStartOffset |-> NoOffset, previewEndOffset |-> NoOffset,
      lastChangeTimestamp |-> NoOffset],
            !.boundaryDrag = initialBoundaryDragState]

ReduceEnterBoundaryEditMode(s, a) ==
  [s EXCEPT !.boundaryEdit =
     [isActive |-> TRUE, quoteId |-> a.payload,
      previewStartOffset |-> NoOffset, previewEndOffset |-> NoOffset,
      lastChangeTimestamp |-> NoOffset]]

\* Date.now() is abstracted to "a timestamp was taken" (1).
ReduceUpdateBoundaryPreview(s, a) ==
  [s EXCEPT !.boundaryEdit.previewStartOffset = a.payload.startOffset,
            !.boundaryEdit.previewEndOffset = a.payload.endOffset,
            !.boundaryEdit.lastChangeTimestamp = 1]

ReduceCommitBoundaryChange(s, a) ==
  [s EXCEPT !.boundaryEdit.previewStartOffset = NoOffset,
            !.boundaryEdit.previewEndOffset = NoOffset,
            !.boundaryEdit.lastChangeTimestamp = NoOffset]

ReduceStartBoundaryDrag(s, a) ==
  [s EXCEPT !.boundaryDrag =
     [isDragging |-> TRUE, edge |-> a.payload.edge,
      originalOffset |-> a.payload.offset,
      currentOffset |-> a.payload.offset,
      quoteId |-> a.payload.quoteId, wouldMergeParagraphs |-> FALSE,
      paragraphsToMerge |-> <<>>]]

ReduceUpdateBoundaryDragRebased(s, a) ==
  [s EXCEPT !.boundaryDrag.currentOffset = a.payload.offset,
            !.boundaryDrag.originalOffset = a.payload.offset,
            !.boundaryDrag.wouldMergeParagraphs = a.payload.wouldMerge,
            !.boundaryDrag.paragraphsToMerge = a.payload.paragraphsToMerge]

ReduceUpdateBoundaryDrag(s, a) ==
  [s EXCEPT !.boundaryDrag.currentOffset = a.payload.offset,
            !.boundaryDrag.wouldMergeParagraphs = a.payload.wouldMerge,
            !.boundaryDrag.paragraphsToMerge = a.payload.paragraphsToMerge]

ReduceStartQuoteCreation(s, a) ==
  [s EXCEPT !.creation =
     [isCreating |-> TRUE, selectedText |-> a.payload.selectedText,
      selectedRange |-> a.payload.range, referenceInput |-> "",
      lookupResult |-> NullRec, isLookingUp |-> FALSE,
      isNonBiblical |-> FALSE,
      spannedParagraphIds |-> a.payload.spannedParagraphIds]]

ReduceEnterInterjectionEditMode(s, a) ==
  [s EXCEPT !.interjectionEdit =
     [isActive |-> TRUE, quoteId |-> a.payload, pendingCandidates |-> <<>>,
      selectedText |-> Null, selectionRange |-> NullRec]]

\* candidates[index] is undefined outside the array: nothing is replaced.
ReduceConfirmInterjectionCandidate(s, a) ==
  LET candidates == s.interjectionEdit.pendingCandidates
      index == a.payload + 1
  IN [s EXCEPT !.interjectionEdit.pendingCandidates =
        IF index \in DOMAIN candidates
        THEN [candidates EXCEPT ![index] =
                Spread(@, [confirmed |-> TRUE, rejected |-> FALSE])]
        ELSE candidates]

ReduceRejectInterjectionCandidate(s, a) ==
  LET candidates == s.interjectionEdit.pendingCandidates
      index == a.payload + 1
  IN [s EXCEPT !.interjectionEdit.pendingCandidates =
        IF index \in DOMAIN candidates
        THEN [candidates EXCEPT ![index] =
                Spread(@, [confirmed |-> FALSE, rejected |-> TRUE])]
        ELSE candidates]

\* new Set(array)
NewSet(array) == {array[i] : i \in DOMAIN array}

ReduceLoadPersistedState(s, a) ==
  [s EXCEPT !.review.panelOpen = a.payload.panelOpen,
            !.review.panelWidth = a.payload.panelWidth,
            !.review.reviewedQuoteIds = NewSet(a.payload.reviewedQuoteIds),
            !.review.bannerDismissed = a.payload.bannerDismissed]

quoteReviewReducer(s, a) ==
  CASE a.type = "SET_QUOTES" -> ReduceSetQuotes(s, a)
    [] a.type = "ADD_QUOTE" -> ReduceAddQuote(s, a)
    [] a.type = "UPDATE_QUOTE" -> ReduceUpdateQuote(s, a)
    [] a.type = "REMOVE_QUOTE" -> ReduceRemoveQuote(s, a)
    [] a.type = "SET_REVIEW_MODE_ACTIVE" ->
         [s EXCEPT !.review.isReviewModeActive = a.payload]
    [] a.type = "SET_FOCUSED_QUOTE" ->
         [s EXCEPT !.review.focusedQuoteId = a.payload]
    [] a.type = "MARK_QUOTE_REVIEWED" -> ReduceMarkQuoteReviewed(s, a)
    [] a.type = "TOGGLE_PANEL" ->
         [s EXCEPT !.review.panelOpen = ~s.review.panelOpen]
    [] a.type = "SET_PANEL_OPEN" -> [s EXCEPT !.review.panelOpen = a.payload]
    [] a.type = "SET_PANEL_WIDTH" ->
         [s EXCEPT !.review.panelWidth = a.payload]
    [] a.type = "DISMISS_BANNER" ->
         [s EXCEPT !.review.bannerDismissed = TRUE]
    [] a.type = "ENTER_BOUNDARY_EDIT_MODE" -> ReduceEnterBoundaryEditMode(s, a)
    [] a.type = "EXIT_BOUNDARY_EDIT_MODE" ->
         [s EXCEPT !.boundaryEdit = initialBoundaryEditState]
    [] a.type = "UPDATE_BOUNDARY_PREVIEW" -> ReduceUpdateBoundaryPreview(s, a)
    [] a.type = "COMMIT_BOUNDARY_CHANGE" -> ReduceCommitBoundaryChange(s, a)
    [] a.type = "START_BOUNDARY_DRAG" -> ReduceStartBoundaryDrag(s, a)
    [] a.type = "UPDATE_BOUNDARY_DRAG" -> ReduceUpdateBoundaryDrag(s, a)
    [] a.type \in {"END_BOUNDARY_DRAG", "CANCEL_BOUNDARY_DRAG"} ->
         [s EXCEPT !.boundaryDrag = initialBoundaryDragState]
    [] a.type = "START_QUOTE_CREATION" -> ReduceStartQuoteCreation(s, a)
    [] a.type = "UPDATE_REFERENCE_INPUT" ->
         [s EXCEPT !.creation.referenceInput = a.payload]
    [] a.type = "SET_LOOKUP_RESULT" ->
         [s EXCEPT !.creation.lookupResult = a.payload]
    [] a.type = "SET_IS_LOOKING_UP" ->
         [s EXCEPT !.creation.isLookingUp = a.payload]
    [] a.type = "SET_IS_NON_BIBLICAL" ->
         [s EXCEPT !.creation.isNonBiblical = a.payload]
    [] a.type \in {"CANCEL_QUOTE_CREATION", "CONFIRM_QUOTE_CREATION"} ->
         [s EXCEPT !.creation = initialCreationState]
    [] a.type = "ENTER_INTERJECTION_EDIT_MODE" ->
         ReduceEnterInterjectionEditMode(s, a)
    [] a.type = "EXIT_INTERJECTION_EDIT_MODE" ->
         [s EXCEPT !.interjectionEdit = initialInterjectionEditState]
    [] a.type = "SET_PENDING_INTERJECTION_CANDIDATES" ->
         [s EXCEPT !.interjectionEdit.pendingCandidates = a.payload]
    [] a.type = "CONFIRM_INTERJECTION_CANDIDATE" ->
         ReduceConfirmInterjectionCandidate(s, a)
    [] a.type = "REJECT_INTERJECTION_CANDIDATE" ->
         ReduceRejectInterjectionCandidate(s, a)
    [] a.type = "SET_INTERJECTION_SELECTION" ->
         [s EXCEPT !.interjectionEdit.selectedText = a.payload.text,
                   !.interjectionEdit.selectionRange = a.payload.range]
    [] a.type = "SET_FILTER_MODE" -> [s EXCEPT !.panelFilter.mode = a.payload]
    [] a.type = "SET_SELECTED_BOOK" ->
         [s EXCEPT !.panelFilter.selectedBook = a.payload]
    [] a.type = "SET_SEARCH_QUERY" ->
         [s EXCEPT !.panelFilter.searchQuery = a.payload]
    [] a.type = "LOAD_PERSISTED_STATE" -> ReduceLoadPersistedState(s, a)
    [] a.type = "RESET_STATE" -> initialState
    [] OTHER -> s

\* Action creators of the provider (dispatch wrappers)
Act(type, payload) == [type |-> type, payload |-> payload]

\* ------------------------------------------------------------------------
\* State
\* ------------------------------------------------------------------------
VARIABLES
  state,                 \* QuoteReviewContextState held by useReducer
  ast,                   \* quote nodes of the document AST, by node id
  editorFocusedQuoteId,  \* focusedQuoteId of QuoteAwareSermonEditor
  lastEvent,             \* name of the handler that ran last (history)
  timers,                \* pending setTimeout callbacks with their closures
  mounted,               \* hooks / components currently mounted
  cleared,               \* kinds of the timers the last step cancelled
  commitTimerRef,        \* useBoundaryMutation: commitTimerRef.current
  lastCommittedOffsetRef,\* useBoundaryMutation: lastCommittedOffsetRef.current
  delivered,             \* result the last step passed to onBoundaryCommit
  preview,               \* latest candidate range of the drag in progress
  lookupTimerRef,        \* useQuoteCreation: lookupTimerRef.current
  inflight,              \* bag of references whose onLookupVerse promise is pending
  applied,               \* reference whose lookup result the last step stored
  debounceTimerRef,      \* QuoteBoundaryEditor: debounceTimerRef.current
  dragHandle,            \* QuoteBoundaryEditor: dragState.handle
  doc,                   \* document context: root, undo and redo stacks
  rootHistory,           \* line of roots and the position of the current one
  versions,              \* document context: editVersion, externalAstVersion
  pendingMerge,          \* useParagraphMerge: pendingMerge state
  autoConfirm,           \* useParagraphMerge: autoConfirm option of the instance
  mergeRequest,          \* paragraph ids the last step passed to previewMerge
  mergePreview,          \* what previewMerge returned in the last step
  mergeConfirmed,        \* previews the last step passed to onMergeConfirmed
  astRoot,               \* DocumentRootNode the caller of the converter holds
  conversionOptions,     \* ConversionOptions passed to both conversions
  editorTree,            \* TipTap document held by the editor
  existingRoot,          \* third argument of the last tipTapJsonToAst call
  conversion,            \* ConversionResult of the last tipTapJsonToAst call
  editedState,           \* DocumentState being saved: root, log, stacks
  saveOptions,           \* SaveToHistoryOptions: includeEventLog, maxEvents
  historyItem,           \* history record: documentStateJson, sermonDocument
  restored,              \* RestoreFromHistoryResult of the last restore
  referenceText,         \* string handed to parseReference
  parsed,                \* what parseReference returned for referenceText
  detectionInput,        \* text and hook options of a detectInterjections call
  detected,              \* what detectInterjections returned for them
  documentId,            \* QuoteReviewProvider: documentId prop
  storage,               \* localStorage: saved review state of each document
  writes                 \* localStorage.setItem calls of the last step

syncVars == <<ast, editorFocusedQuoteId>>
timerVars == <<timers, mounted, cleared>>
dragVars == <<commitTimerRef, lastCommittedOffsetRef, delivered, preview>>
creationVars == <<lookupTimerRef, inflight, applied>>
editorVars == <<debounceTimerRef, dragHandle>>
docVars == <<doc, rootHistory, versions>>
mergeVars == <<pendingMerge, autoConfirm, mergeRequest, mergePreview,
               mergeConfirmed>>
bridgeVars == <<astRoot, conversionOptions, editorTree, existingRoot,
                conversion>>
historyVars == <<editedState, saveOptions, historyItem, restored>>
parseVars == <<referenceText, parsed>>
detectVars == <<detectionInput, detected>>
persistVars == <<documentId, storage, writes>>
codecVars == <<bridgeVars, historyVars, parseVars, detectVars, persistVars>>

vars == <<state, lastEvent, syncVars, timerVars, dragVars, creationVars,
          editorVars, docVars, mergeVars, codecVars>>

outsideSync ==
  <<timerVars, dragVars, creationVars, editorVars, docVars, mergeVars,
    codecVars>>

dispatch(a) == state' = quoteReviewReducer(state, a)

\* Two dispatches of one handler, applied in order
dispatch2(a, b) == state' = quoteReviewReducer(quoteReviewReducer(state, a), b)

QuoteIdsOf(s) == {s.quotes[i].id : i \in DOMAIN s.quotes}

\* quotes.find((q) => q.id === id)
FindQuote(quotes, id) ==
  IF \E i \in DOMAIN quotes : quotes[i].id = id
  THEN quotes[CHOOSE i \in DOMAIN quotes :
                quotes[i].id = id /\ \A j \in 1..(i - 1) : quotes[j].id # id]
  ELSE NullRec

\* ------------------------------------------------------------------------
\* Document AST (quote nodes) and the editor's quote actions
\* ------------------------------------------------------------------------
QuoteBlock(ref, verified) ==
  [type |-> "quote_block", reference |-> ref, userVerified |-> verified,
   isNonBiblical |-> FALSE]

IsQuoteBlock(tree, id) == id \in DOMAIN tree /\ tree[id].type = "quote_block"

\* editorActions.quoteActions.*: act on the quote block with that id
toggleQuoteVerification(tree, id, verified) ==
  IF IsQuoteBlock(tree, id) THEN [tree EXCEPT ![id].userVerified = verified]
  ELSE tree

updateQuoteReference(tree, id, ref) ==
  IF IsQuoteBlock(tree, id) THEN [tree EXCEPT ![id].reference = ref] ELSE tree

\* Quote removal converts the quote block back into a paragraph
deleteQuote(tree, id) ==
  IF IsQuoteBlock(tree, id)
  THEN [tree EXCEPT ![id] = [type |-> "paragraph", reference |-> "",
                             userVerified |-> FALSE, isNonBiblical |-> FALSE]]
  ELSE tree

\* QuoteReviewItem list derived by traversing the AST (document order)
RECURSIVE DeriveQuoteItems(_, _)
DeriveQuoteItems(tree, id) ==
  IF id > MaxQuotes THEN <<>>
  ELSE (IF IsQuoteBlock(tree, id)
        THEN <<[id |-> id, reference |-> tree[id].reference,
                isNonBiblical |-> tree[id].isNonBiblical,
                isReviewed |-> tree[id].userVerified]>>
        ELSE <<>>) \o DeriveQuoteItems(tree, id + 1)

\* ------------------------------------------------------------------------
\* Quote list: load and stale callbacks
\* ------------------------------------------------------------------------
\* setQuotes with the projection of the current AST
LoadQuotes ==
  /\ dispatch(Act("SET_QUOTES", DeriveQuoteItems(ast, 1)))
  /\ lastEvent' = "loadQuotes"
  /\ UNCHANGED outsideSync
  /\ UNCHANGED syncVars

QuoteUpdates ==
  {[isReviewed |-> b] : b \in BOOLEAN} \cup
  {[reference |-> r] : r \in References} \cup
  {[isNonBiblical |-> b] : b \in BOOLEAN}

\* A UI callback created before a deletion runs after it: updateQuote for an
\* id that is no longer in the list
StaleUpdateQuote ==
  \E id \in QuoteIds, updates \in QuoteUpdates :
    /\ id \notin QuoteIdsOf(state)
    /\ dispatch(Act("UPDATE_QUOTE", [quoteId |-> id, updates |-> updates]))
    /\ lastEvent' = "staleUpdateQuote"
    /\ UNCHANGED outsideSync
    /\ UNCHANGED syncVars

\* ------------------------------------------------------------------------
\* QuoteReviewPanel handlers
\* ------------------------------------------------------------------------
PanelFocusedQuote == FindQuote(state.quotes, state.review.focusedQuoteId)

PanelSelectQuote ==
  \E id \in QuoteIdsOf(state) :
    /\ dispatch(Act("SET_FOCUSED_QUOTE", id))
    /\ lastEvent' = "panelSelectQuote"
    /\ UNCHANGED outsideSync
    /\ UNCHANGED syncVars

PanelHandleVerify ==
  \E id \in QuoteIdsOf(state) :
    LET quote == FindQuote(state.quotes, id)
        newVerifiedState == ~quote.isReviewed
    IN /\ dispatch(Act("UPDATE_QUOTE",
                       [quoteId |-> id,
                        updates |-> [isReviewed |-> newVerifiedState]]))
       /\ ast' = toggleQuoteVerification(ast, id, newVerifiedState)
       /\ lastEvent' = "panelVerify"
       /\ UNCHANGED outsideSync
       /\ UNCHANGED editorFocusedQuoteId

PanelHandleReferenceChange ==
  \E ref \in References :
    /\ PanelFocusedQuote # NullRec
    /\ dispatch(Act("UPDATE_QUOTE",
                    [quoteId |-> state.review.focusedQuoteId,
                     updates |-> [reference |-> ref]]))
    /\ ast' = updateQuoteReference(ast, state.review.focusedQuoteId, ref)
    /\ lastEvent' = "panelReferenceChange"
    /\ UNCHANGED outsideSync
    /\ UNCHANGED editorFocusedQuoteId

PanelHandleDelete ==
  /\ PanelFocusedQuote # NullRec
  /\ ast' = deleteQuote(ast, state.review.focusedQuoteId)
  /\ dispatch2(Act("REMOVE_QUOTE", state.review.focusedQuoteId),
               Act("SET_FOCUSED_QUOTE", NullId))
  /\ lastEvent' = "panelDelete"
  /\ UNCHANGED outsideSync
  /\ UNCHANGED editorFocusedQuoteId

\* ------------------------------------------------------------------------
\* useQuoteKeyboardNavigation
\* ------------------------------------------------------------------------
getCurrentIndex ==
  IF state.review.focusedQuoteId = NullId THEN -1
  ELSE IF \E i \in DOMAIN state.quotes :
            state.quotes[i].id = state.review.focusedQuoteId
       THEN (CHOOSE i \in DOMAIN state.quotes :
               /\ state.quotes[i].id = state.review.focusedQuoteId
               /\ \A j \in 1..(i - 1) :
                    state.quotes[j].id # state.review.focusedQuoteId) - 1
       ELSE -1

navigateNext ==
  LET currentIndex == getCurrentIndex
      nextIndex == IF currentIndex < Len(state.quotes) - 1
                   THEN currentIndex + 1 ELSE 0
  IN /\ nextIndex + 1 \in DOMAIN state.quotes
     /\ dispatch(Act("SET_FOCUSED_QUOTE", state.quotes[nextIndex + 1].id))
     /\ lastEvent' = "navigateNext"
     /\ UNCHANGED outsideSync
     /\ UNCHANGED syncVars

\* Enter / Space on the focused quote
toggleVerify ==
  /\ state.review.focusedQuoteId # NullId
  /\ PanelFocusedQuote # NullRec
  /\ dispatch(Act("UPDATE_QUOTE",
                  [quoteId |-> state.review.focusedQuoteId,
                   updates |-> [isReviewed |-> ~PanelFocusedQuote.isReviewed]]))
  /\ lastEvent' = "toggleVerify"
  /\ UNCHANGED outsideSync
  /\ UNCHANGED syncVars

\* ------------------------------------------------------------------------
\* QuoteAwareSermonEditor handlers
\* ------------------------------------------------------------------------
\* The editor's own quote list, extracted from documentState.root
EditorQuoteIsVerified(id) == ast[id].userVerified

\* Click on a blockquote focuses it; a click elsewhere clears the focus
EditorQuoteClick ==
  \E id \in QuoteIds \cup {NullId} :
    /\ id # NullId => IsQuoteBlock(ast, id)
    /\ editorFocusedQuoteId' = id
    /\ lastEvent' = "editorQuoteClick"
    /\ UNCHANGED <<state, ast>>
    /\ UNCHANGED outsideSync

\* FloatingEditBar onVerify and Cmd+Shift+V
EditorHandleVerifyQuote ==
  /\ editorFocusedQuoteId # NullId
  /\ IsQuoteBlock(ast, editorFocusedQuoteId)
  /\ LET newVerifiedState == ~EditorQuoteIsVerified(editorFocusedQuoteId)
     IN /\ dispatch(Act("UPDATE_QUOTE",
                        [quoteId |-> editorFocusedQuoteId,
                         updates |-> [isReviewed |-> newVerifiedState]]))
        /\ ast' = toggleQuoteVerification(ast, editorFocusedQuoteId,
                                          newVerifiedState)
  /\ lastEvent' = "editorVerify"
  /\ UNCHANGED editorFocusedQuoteId
  /\ UNCHANGED outsideSync

\* FloatingEditBar onReferenceChange
EditorHandleReferenceChange ==
  \E ref \in References :
    /\ editorFocusedQuoteId # NullId
    /\ dispatch(Act("UPDATE_QUOTE",
                    [quoteId |-> editorFocusedQuoteId,
                     updates |-> [reference |-> ref]]))
    /\ ast' = updateQuoteReference(ast, editorFocusedQuoteId, ref)
    /\ lastEvent' = "editorReferenceChange"
    /\ UNCHANGED editorFocusedQuoteId
    /\ UNCHANGED outsideSync

\* Delete key with a focused quote
EditorKeyDelete ==
  /\ editorFocusedQuoteId # NullId
  /\ ast' = deleteQuote(ast, editorFocusedQuoteId)
  /\ dispatch(Act("REMOVE_QUOTE", editorFocusedQuoteId))
  /\ editorFocusedQuoteId' = NullId
  /\ lastEvent' = "editorKeyDelete"
  /\ UNCHANGED outsideSync

\* Right-click menu on a blockquote: handleContextMenuAction
ContextMenuVerify ==
  \E id \in QuoteIds :
    /\ IsQuoteBlock(ast, id)
    /\ dispatch(Act("UPDATE_QUOTE",
                    [quoteId |-> id, updates |-> [isReviewed |-> TRUE]]))
    /\ ast' = toggleQuoteVerification(ast, id, TRUE)
    /\ editorFocusedQuoteId' = id
    /\ lastEvent' = "contextMenuVerify"
    /\ UNCHANGED outsideSync

ContextMenuDelete ==
  \E id \in QuoteIds :
    /\ IsQuoteBlock(ast, id)
    /\ ast' = deleteQuote(ast, id)
    /\ dispatch(Act("REMOVE_QUOTE", id))
    /\ editorFocusedQuoteId' = NullId
    /\ lastEvent' = "contextMenuDelete"
    /\ UNCHANGED outsideSync

\* FloatingEditBar onDelete
FloatingBarDelete ==
  /\ editorFocusedQuoteId # NullId
  /\ dispatch(Act("REMOVE_QUOTE", editorFocusedQuoteId))
  /\ editorFocusedQuoteId' = NullId
  /\ lastEvent' = "floatingBarDelete"
  /\ UNCHANGED ast
  /\ UNCHANGED outsideSync

\* ------------------------------------------------------------------------
\* Timers (setTimeout / clearTimeout)
\* ------------------------------------------------------------------------
\* Timer ids are unique: each kind of timer draws from its own block of
\* ids, and an id is fresh when no pending timer and no ref holds it
TimerKinds == <<"commit", "lookup", "boundaryChange">>

TimerIds(kind) ==
  LET k == CHOOSE i \in DOMAIN TimerKinds : TimerKinds[i] = kind
  IN ((k - 1) * MaxTimers + 1)..(k * MaxTimers)

HeldIds ==
  {t.id : t \in timers} \cup {commitTimerRef, lookupTimerRef, debounceTimerRef}

CanSetTimeout(kind) == TimerIds(kind) \ HeldIds # {}

FreshTimerId(kind) ==
  CHOOSE i \in TimerIds(kind) \ HeldIds :
    \A j \in TimerIds(kind) \ HeldIds : i <= j

\* clearTimeout(id): drops the pending timer with that id, if any
clearTimeout(pending, id) == {t \in pending : t.id # id}

\* Variant: the pending timer is left scheduled
clearIfSetSkips(pending, ref) == pending

\* if (ref.current) clearTimeout(ref.current)
clearIfSet(pending, ref) ==
  IF ref # NullId THEN clearTimeout(pending, ref) ELSE pending

setTimeout(pending, id, kind, closure) ==
  pending \cup {[id |-> id, kind |-> kind, closure |-> closure]}

TimersOfKind(kind) == {t \in timers : t.kind = kind}

\* Kinds of the pending timers that clearIfSet(timers, ref) cancels
ClearedBy(ref) == {t.kind : t \in timers \ clearIfSet(timers, ref)}

\* ------------------------------------------------------------------------
\* useBoundaryMutation
\* ------------------------------------------------------------------------
\* documentNodes: two paragraphs laid out one after the other
DocumentNodes ==
  <<[id |-> 101, type |-> "paragraph", startOffset |-> 0,
     endOffset |-> 2 * OffsetStep],
    [id |-> 102, type |-> "paragraph", startOffset |-> 2 * OffsetStep,
     endOffset |-> 100 * OffsetStep]>>

RECURSIVE findSpannedParagraphsFrom(_, _, _)
findSpannedParagraphsFrom(i, startOffset, endOffset) ==
  IF i > Len(DocumentNodes) THEN <<>>
  ELSE (IF /\ DocumentNodes[i].type = "paragraph"
           /\ DocumentNodes[i].startOffset < endOffset
           /\ DocumentNodes[i].endOffset > startOffset
        THEN <<DocumentNodes[i].id>> ELSE <<>>)
       \o findSpannedParagraphsFrom(i + 1, startOffset, endOffset)

findSpannedParagraphs(startOffset, endOffset) ==
  findSpannedParagraphsFrom(1, startOffset, endOffset)

checkParagraphCrossing(startOffset, endOffset) ==
  LET spannedParagraphs == findSpannedParagraphs(startOffset, endOffset)
  IN [crosses |-> Len(spannedParagraphs) > 1, paragraphs |-> spannedParagraphs]

snapToWordBoundary(offset, direction) == offset

\* The [start, end] pair for a dragged edge at `offset`: the other edge is
\* taken from boundaryDrag.originalOffset
CandidateRange(edge, offset, originalOffset) ==
  IF edge = "start"
  THEN [startOffset |-> offset, endOffset |-> originalOffset]
  ELSE [startOffset |-> originalOffset, endOffset |-> offset]

unchangedByDrag ==
  <<syncVars, creationVars, editorVars, docVars, mergeVars, codecVars>>

MountBoundaryMutation ==
  /\ "boundaryMutation" \notin mounted
  /\ mounted' = mounted \cup {"boundaryMutation"}
  /\ commitTimerRef' = NullId
  /\ lastCommittedOffsetRef' = NoOffset
  /\ delivered' = NullRec
  /\ lastEvent' = "mountBoundaryMutation"
  /\ cleared' = {}
  /\ UNCHANGED <<state, timers, preview>>
  /\ UNCHANGED unchangedByDrag

\* Effect cleanup on unmount; the refs go with the instance
UnmountBoundaryMutation ==
  /\ "boundaryMutation" \in mounted
  /\ mounted' = mounted \ {"boundaryMutation"}
  /\ timers' = clearIfSet(timers, commitTimerRef)
  /\ delivered' = NullRec
  /\ commitTimerRef' = NullId
  /\ lastCommittedOffsetRef' = NoOffset
  /\ lastEvent' = "unmountBoundaryMutation"
  /\ cleared' = ClearedBy(commitTimerRef)
  /\ UNCHANGED <<state, preview>>
  /\ UNCHANGED unchangedByDrag

startDrag ==
  \E quoteId \in QuoteIds, edge \in Edges, initialOffset \in Offsets :
    /\ "boundaryMutation" \in mounted
    /\ lastCommittedOffsetRef' = initialOffset
    /\ dispatch(Act("START_BOUNDARY_DRAG",
                    [quoteId |-> quoteId, edge |-> edge,
                     offset |-> initialOffset]))
    /\ preview' = NullRec
    /\ delivered' = NullRec
    /\ lastEvent' = "startDrag"
    /\ cleared' = {}
    /\ UNCHANGED <<timers, mounted, commitTimerRef>>
    /\ UNCHANGED unchangedByDrag

updateDrag ==
  \E newOffset \in Offsets :
    /\ "boundaryMutation" \in mounted
    /\ state.boundaryDrag.isDragging /\ state.boundaryDrag.quoteId # NullId
    /\ LET snappedOffset ==
             snapToWordBoundary(newOffset,
                                IF state.boundaryDrag.edge = Null THEN "end"
                                ELSE state.boundaryDrag.edge)
           range == CandidateRange(state.boundaryDrag.edge, snappedOffset,
                                   state.boundaryDrag.originalOffset)
           crossing == checkParagraphCrossing(range.startOffset,
                                              range.endOffset)
       IN /\ dispatch(Act("UPDATE_BOUNDARY_DRAG",
                          [offset |-> snappedOffset,
                           wouldMerge |-> crossing.crosses,
                           paragraphsToMerge |-> crossing.paragraphs]))
          /\ preview' = range
    /\ delivered' = NullRec
    /\ lastEvent' = "updateDrag"
    /\ cleared' = {}
    /\ UNCHANGED <<timers, mounted, commitTimerRef, lastCommittedOffsetRef>>
    /\ UNCHANGED unchangedByDrag

\* endDrag that schedules without clearing
endDragStacking ==
  /\ "boundaryMutation" \in mounted
  /\ state.boundaryDrag.isDragging /\ state.boundaryDrag.quoteId # NullId
  /\ CanSetTimeout("commit")
  /\ timers' = setTimeout(timers,
                          FreshTimerId("commit"), "commit",
                          [quoteId |-> state.boundaryDrag.quoteId,
                           newOffset |-> state.boundaryDrag.currentOffset,
                           edge |-> state.boundaryDrag.edge,
                           originalOffset |-> state.boundaryDrag.originalOffset])
  /\ commitTimerRef' = FreshTimerId("commit")
  /\ delivered' = NullRec
  /\ lastEvent' = "endDrag"
  /\ cleared' = {}
  /\ UNCHANGED <<state, mounted, lastCommittedOffsetRef, preview>>
  /\ UNCHANGED unchangedByDrag

\* Clears the pending commit, then schedules a new one whose closure holds
\* the drag state of this render
endDrag ==
  /\ "boundaryMutation" \in mounted
  /\ state.boundaryDrag.isDragging /\ state.boundaryDrag.quoteId # NullId
  /\ CanSetTimeout("commit")
  /\ timers' = setTimeout(clearIfSet(timers, commitTimerRef),
                          FreshTimerId("commit"), "commit",
                          [quoteId |-> state.boundaryDrag.quoteId,
                           newOffset |-> state.boundaryDrag.currentOffset,
                           edge |-> state.boundaryDrag.edge,
                           originalOffset |-> state.boundaryDrag.originalOffset])
  /\ commitTimerRef' = FreshTimerId("commit")
  /\ delivered' = NullRec
  /\ lastEvent' = "endDrag"
  /\ cleared' = ClearedBy(commitTimerRef)
  /\ UNCHANGED <<state, mounted, lastCommittedOffsetRef, preview>>
  /\ UNCHANGED unchangedByDrag

\* Result handed to onBoundaryCommit by the timer callback
BoundaryMutationResult(c) ==
  LET range == CandidateRange(c.edge, c.newOffset, c.originalOffset)
      crossing == checkParagraphCrossing(range.startOffset, range.endOffset)
  IN [quoteId |-> c.quoteId, requiresMerge |-> crossing.crosses,
      paragraphsToMerge |-> crossing.paragraphs,
      newStartOffset |-> range.startOffset,
      newEndOffset |-> range.endOffset,
      mergeRequested |-> crossing.crosses]

\* The debounce timer of endDrag fires
FireCommitTimer ==
  \E t \in TimersOfKind("commit") :
    LET c == t.closure
        significantChange ==
          \/ lastCommittedOffsetRef = NoOffset
          \/ Abs(c.newOffset - lastCommittedOffsetRef)
               > SIGNIFICANT_CHANGE_THRESHOLD
    IN /\ timers' = timers \ {t}
       /\ IF significantChange
          THEN /\ delivered' = BoundaryMutationResult(c)
               /\ lastCommittedOffsetRef' = c.newOffset
          ELSE /\ delivered' = NullRec
               /\ UNCHANGED lastCommittedOffsetRef
       /\ dispatch(Act("END_BOUNDARY_DRAG", Null))
       /\ commitTimerRef' = NullId
       /\ lastEvent' = "fireCommitTimer"
       /\ cleared' = {}
       /\ preview' = NullRec
       /\ UNCHANGED mounted
       /\ UNCHANGED unchangedByDrag

\* cancelDrag that leaves the pending commit scheduled
cancelDragKeepsTimer ==
  /\ "boundaryMutation" \in mounted
  /\ timers' = timers
  /\ commitTimerRef' = NullId
  /\ lastCommittedOffsetRef' = NoOffset
  /\ dispatch(Act("CANCEL_BOUNDARY_DRAG", Null))
  /\ delivered' = NullRec
  /\ lastEvent' = "cancelDrag"
  /\ cleared' = {}
  /\ preview' = NullRec
  /\ UNCHANGED mounted
  /\ UNCHANGED unchangedByDrag

cancelDrag ==
  /\ "boundaryMutation" \in mounted
  /\ timers' = clearIfSet(timers, commitTimerRef)
  /\ commitTimerRef' = NullId
  /\ lastCommittedOffsetRef' = NoOffset
  /\ dispatch(Act("CANCEL_BOUNDARY_DRAG", Null))
  /\ delivered' = NullRec
  /\ lastEvent' = "cancelDrag"
  /\ cleared' = ClearedBy(commitTimerRef)
  /\ preview' = NullRec
  /\ UNCHANGED mounted
  /\ UNCHANGED unchangedByDrag

\* ------------------------------------------------------------------------
\* Reference strings
\* ------------------------------------------------------------------------
\* Optional values: None for undefined, Some(x) for a value
None == <<>>

Some(x) == <<x>>

\* Inputs typed into the reference field
ReferenceInputs == {"", "John 3", "John 3:16", "Mark 1:1 "}

\* The characters of a string
Chars(str) ==
  CASE str = "" -> <<>>
    [] str = "John 3" -> <<"J", "o", "h", "n", " ", "3">>
    [] str = "John 3:16" -> <<"J", "o", "h", "n", " ", "3", ":", "1", "6">>
    [] str = "Mark 1:1 " -> <<"M", "a", "r", "k", " ", "1", ":", "1", " ">>
    [] str = "Mark 1:1" -> <<"M", "a", "r", "k", " ", "1", ":", "1">>
    [] str = "Alpha " -> <<"A", "l", "p", "h", "a", " ">>
    [] str = " Beta" -> <<" ", "B", "e", "t", "a">>
    [] str = "Gamma" -> <<"G", "a", "m", "m", "a">>
    [] str = "Ann" ->
         <<"A", "n", "n">>
    [] str = "Amen" ->
         <<"A", "m", "e", "n">>
    [] str = "Speaker: Ann" ->
         <<"S", "p", "e", "a", "k", "e", "r", ":", " ", "A", "n", "n">>
    [] str = "Easter" ->
         <<"E", "a", "s", "t", "e", "r">>
    [] str = "Intro" ->
         <<"I", "n", "t", "r", "o">>
    [] str = "hallelujah" ->
         <<"h", "a", "l", "l", "e", "l", "u", "j", "a", "h">>
    [] str = "Unknown" ->
         <<"U", "n", "k", "n", "o", "w", "n">>
    [] str = "KJV" ->
         <<"K", "J", "V">>
    [] str = "Primary Reference: " ->
         <<"P", "r", "i", "m", "a", "r", "y", " ", "R", "e", "f", "e", "r", "e", "n", "c", "e", ":", " ">>
    [] str = "Primary Reference:" ->
         <<"P", "r", "i", "m", "a", "r", "y", " ", "R", "e", "f", "e", "r", "e", "n", "c", "e", ":">>
    [] str = "Primary References:" ->
         <<"P", "r", "i", "m", "a", "r", "y", " ", "R", "e", "f", "e", "r", "e", "n", "c", "e", "s", ":">>
    [] str = "References from the Sermon:" ->
         <<"R", "e", "f", "e", "r", "e", "n", "c", "e", "s", " ", "f", "r", "o", "m", " ", "t", "h", "e", " ", "S", "e", "r", "m", "o", "n", ":">>
    [] str = "Tags:" ->
         <<"T", "a", "g", "s", ":">>
    [] str = "Speaker:" ->
         <<"S", "p", "e", "a", "k", "e", "r", ":">>
    [] str = "My notes" ->
         <<"M", "y", " ", "n", "o", "t", "e", "s">>
    [] str = "1 Corinthians" ->
         <<"1", " ", "C", "o", "r", "i", "n", "t", "h", "i", "a", "n", "s">>
    [] str = "1 Corinthians 13:4-7" ->
         <<"1", " ", "C", "o", "r", "i", "n", "t", "h", "i", "a", "n", "s", " ", "1", "3", ":", "4", "-", "7">>
    [] str = "Genesis 1:1" ->
         <<"G", "e", "n", "e", "s", "i", "s", " ", "1", ":", "1">>
    [] str = "2 Timothy 3:16-17" ->
         <<"2", " ", "T", "i", "m", "o", "t", "h", "y", " ", "3", ":", "1", "6", "-", "1", "7">>
    [] str = "invalid" ->
         <<"i", "n", "v", "a", "l", "i", "d">>
    [] str = "John" ->
         <<"J", "o", "h", "n">>
    [] str = "3:16" ->
         <<"3", ":", "1", "6">>
    [] str = "  John   3:16  " ->
         <<" ", " ", "J", "o", "h", "n", " ", " ", " ", "3", ":", "1", "6", " ", " ">>
    [] str = "John3:16" ->
         <<"J", "o", "h", "n", "3", ":", "1", "6">>
    [] str = "John 3:16-18" ->
         <<"J", "o", "h", "n", " ", "3", ":", "1", "6", "-", "1", "8">>
    [] str = "John 13:4-" ->
         <<"J", "o", "h", "n", " ", "1", "3", ":", "4", "-">>
    [] str = "John 3:" ->
         <<"J", "o", "h", "n", " ", "3", ":">>
    [] str = "John :16" ->
         <<"J", "o", "h", "n", " ", ":", "1", "6">>
    [] str = "John 3-16" ->
         <<"J", "o", "h", "n", " ", "3", "-", "1", "6">>
    [] str = "John 3:16 -18" ->
         <<"J", "o", "h", "n", " ", "3", ":", "1", "6", " ", "-", "1", "8">>
    [] str = "John 3:1a" ->
         <<"J", "o", "h", "n", " ", "3", ":", "1", "a">>
    [] str = "John 10:05" ->
         <<"J", "o", "h", "n", " ", "1", "0", ":", "0", "5">>
    [] str = "John\t3:16 " ->
         <<"J", "o", "h", "n", "\t", "3", ":", "1", "6", " ">>
    [] str = "1 John 3:16" ->
         <<"1", " ", "J", "o", "h", "n", " ", "3", ":", "1", "6">>
    [] str = "1 John3:16" ->
         <<"1", " ", "J", "o", "h", "n", "3", ":", "1", "6">>
    [] str = "1 John 3:16-18" ->
         <<"1", " ", "J", "o", "h", "n", " ", "3", ":", "1", "6", "-", "1", "8">>
    [] str = "1 John 13:4-" ->
         <<"1", " ", "J", "o", "h", "n", " ", "1", "3", ":", "4", "-">>
    [] str = "1 John 3:" ->
         <<"1", " ", "J", "o", "h", "n", " ", "3", ":">>
    [] str = "1 John :16" ->
         <<"1", " ", "J", "o", "h", "n", " ", ":", "1", "6">>
    [] str = "1 John 3-16" ->
         <<"1", " ", "J", "o", "h", "n", " ", "3", "-", "1", "6">>
    [] str = "1 John 3:16 -18" ->
         <<"1", " ", "J", "o", "h", "n", " ", "3", ":", "1", "6", " ", "-", "1", "8">>
    [] str = "1 John 3:1a" ->
         <<"1", " ", "J", "o", "h", "n", " ", "3", ":", "1", "a">>
    [] str = "1 John 10:05" ->
         <<"1", " ", "J", "o", "h", "n", " ", "1", "0", ":", "0", "5">>
    [] str = "1 John\t3:16 " ->
         <<"1", " ", "J", "o", "h", "n", "\t", "3", ":", "1", "6", " ">>
    [] str = "3John 3:16" ->
         <<"3", "J", "o", "h", "n", " ", "3", ":", "1", "6">>
    [] str = "3John3:16" ->
         <<"3", "J", "o", "h", "n", "3", ":", "1", "6">>
    [] str = "3John 3:16-18" ->
         <<"3", "J", "o", "h", "n", " ", "3", ":", "1", "6", "-", "1", "8">>
    [] str = "3John 13:4-" ->
         <<"3", "J", "o", "h", "n", " ", "1", "3", ":", "4", "-">>
    [] str = "3John 3:" ->
         <<"3", "J", "o", "h", "n", " ", "3", ":">>
    [] str = "3John :16" ->
         <<"3", "J", "o", "h", "n", " ", ":", "1", "6">>
    [] str = "3John 3-16" ->
         <<"3", "J", "o", "h", "n", " ", "3", "-", "1", "6">>
    [] str = "3John 3:16 -18" ->
         <<"3", "J", "o", "h", "n", " ", "3", ":", "1", "6", " ", "-", "1", "8">>
    [] str = "3John 3:1a" ->
         <<"3", "J", "o", "h", "n", " ", "3", ":", "1", "a">>
    [] str = "3John 10:05" ->
         <<"3", "J", "o", "h", "n", " ", "1", "0", ":", "0", "5">>
    [] str = "3John\t3:16 " ->
         <<"3", "J", "o", "h", "n", "\t", "3", ":", "1", "6", " ">>
    [] str = "Song of Songs 3:16" ->
         <<"S", "o", "n", "g", " ", "o", "f", " ", "S", "o", "n", "g", "s", " ", "3", ":", "1", "6">>
    [] str = "Song of Songs3:16" ->
         <<"S", "o", "n", "g", " ", "o", "f", " ", "S", "o", "n", "g", "s", "3", ":", "1", "6">>
    [] str = "Song of Songs 3:16-18" ->
         <<"S", "o", "n", "g", " ", "o", "f", " ", "S", "o", "n", "g", "s", " ", "3", ":", "1", "6", "-", "1", "8">>
    [] str = "Song of Songs 13:4-" ->
         <<"S", "o", "n", "g", " ", "o", "f", " ", "S", "o", "n", "g", "s", " ", "1", "3", ":", "4", "-">>
    [] str = "Song of Songs 3:" ->
         <<"S", "o", "n", "g", " ", "o", "f", " ", "S", "o", "n", "g", "s", " ", "3", ":">>
    [] str = "Song of Songs :16" ->
         <<"S", "o", "n", "g", " ", "o", "f", " ", "S", "o", "n", "g", "s", " ", ":", "1", "6">>
    [] str = "Song of Songs 3-16" ->
         <<"S", "o", "n", "g", " ", "o", "f", " ", "S", "o", "n", "g", "s", " ", "3", "-", "1", "6">>
    [] str = "Song of Songs 3:16 -18" ->
         <<"S", "o", "n", "g", " ", "o", "f", " ", "S", "o", "n", "g", "s", " ", "3", ":", "1", "6", " ", "-", "1", "8">>
    [] str = "Song of Songs 3:1a" ->
         <<"S", "o", "n", "g", " ", "o", "f", " ", "S", "o", "n", "g", "s", " ", "3", ":", "1", "a">>
    [] str = "Song of Songs 10:05" ->
         <<"S", "o", "n", "g", " ", "o", "f", " ", "S", "o", "n", "g", "s", " ", "1", "0", ":", "0", "5">>
    [] str = "Song of Songs\t3:16 " ->
         <<"S", "o", "n", "g", " ", "o", "f", " ", "S", "o", "n", "g", "s", "\t", "3", ":", "1", "6", " ">>
    [] str = "4 Ezra 3:16" ->
         <<"4", " ", "E", "z", "r", "a", " ", "3", ":", "1", "6">>
    [] str = "4 Ezra3:16" ->
         <<"4", " ", "E", "z", "r", "a", "3", ":", "1", "6">>
    [] str = "4 Ezra 3:16-18" ->
         <<"4", " ", "E", "z", "r", "a", " ", "3", ":", "1", "6", "-", "1", "8">>
    [] str = "4 Ezra 13:4-" ->
         <<"4", " ", "E", "z", "r", "a", " ", "1", "3", ":", "4", "-">>
    [] str = "4 Ezra 3:" ->
         <<"4", " ", "E", "z", "r", "a", " ", "3", ":">>
    [] str = "4 Ezra :16" ->
         <<"4", " ", "E", "z", "r", "a", " ", ":", "1", "6">>
    [] str = "4 Ezra 3-16" ->
         <<"4", " ", "E", "z", "r", "a", " ", "3", "-", "1", "6">>
    [] str = "4 Ezra 3:16 -18" ->
         <<"4", " ", "E", "z", "r", "a", " ", "3", ":", "1", "6", " ", "-", "1", "8">>
    [] str = "4 Ezra 3:1a" ->
         <<"4", " ", "E", "z", "r", "a", " ", "3", ":", "1", "a">>
    [] str = "4 Ezra 10:05" ->
         <<"4", " ", "E", "z", "r", "a", " ", "1", "0", ":", "0", "5">>
    [] str = "4 Ezra\t3:16 " ->
         <<"4", " ", "E", "z", "r", "a", "\t", "3", ":", "1", "6", " ">>
    [] str = "1  Kings 3:16" ->
         <<"1", " ", " ", "K", "i", "n", "g", "s", " ", "3", ":", "1", "6">>
    [] str = "1  Kings3:16" ->
         <<"1", " ", " ", "K", "i", "n", "g", "s", "3", ":", "1", "6">>
    [] str = "1  Kings 3:16-18" ->
         <<"1", " ", " ", "K", "i", "n", "g", "s", " ", "3", ":", "1", "6", "-", "1", "8">>
    [] str = "1  Kings 13:4-" ->
         <<"1", " ", " ", "K", "i", "n", "g", "s", " ", "1", "3", ":", "4", "-">>
    [] str = "1  Kings 3:" ->
         <<"1", " ", " ", "K", "i", "n", "g", "s", " ", "3", ":">>
    [] str = "1  Kings :16" ->
         <<"1", " ", " ", "K", "i", "n", "g", "s", " ", ":", "1", "6">>
    [] str = "1  Kings 3-16" ->
         <<"1", " ", " ", "K", "i", "n", "g", "s", " ", "3", "-", "1", "6">>
    [] str = "1  Kings 3:16 -18" ->
         <<"1", " ", " ", "K", "i", "n", "g", "s", " ", "3", ":", "1", "6", " ", "-", "1", "8">>
    [] str = "1  Kings 3:1a" ->
         <<"1", " ", " ", "K", "i", "n", "g", "s", " ", "3", ":", "1", "a">>
    [] str = "1  Kings 10:05" ->
         <<"1", " ", " ", "K", "i", "n", "g", "s", " ", "1", "0", ":", "0", "5">>
    [] str = "1  Kings\t3:16 " ->
         <<"1", " ", " ", "K", "i", "n", "g", "s", "\t", "3", ":", "1", "6", " ">>
    [] str = " 1 Corinthians 13:4-7" ->
         <<" ", "1", " ", "C", "o", "r", "i", "n", "t", "h", "i", "a", "n", "s", " ", "1", "3", ":", "4", "-", "7">>
    [] str = "John 3:16-" ->
         <<"J", "o", "h", "n", " ", "3", ":", "1", "6", "-">>
    [] str = "John 3:16-17-18" ->
         <<"J", "o", "h", "n", " ", "3", ":", "1", "6", "-", "1", "7", "-", "1", "8">>
    [] str = "1 2 John 3:16" ->
         <<"1", " ", "2", " ", "J", "o", "h", "n", " ", "3", ":", "1", "6">>
    [] str = "John 3 :16" ->
         <<"J", "o", "h", "n", " ", "3", " ", ":", "1", "6">>
    [] str = "John: 3:16" ->
         <<"J", "o", "h", "n", ":", " ", "3", ":", "1", "6">>
    [] str = "12 John 3:16" ->
         <<"1", "2", " ", "J", "o", "h", "n", " ", "3", ":", "1", "6">>

Digits == {"0", "1", "2", "3", "4", "5", "6", "7", "8", "9"}

Letters ==
  {"a", "b", "c", "d", "e", "f", "g", "h", "i", "j", "k", "l", "m", "n", "o",
   "p", "q", "r", "s", "t", "u", "v", "w", "x", "y", "z", "A", "B", "C", "D",
   "E", "F", "G", "H", "I", "J", "K", "L", "M", "N", "O", "P", "Q", "R", "S",
   "T", "U", "V", "W", "X", "Y", "Z"}

WhiteSpace == {" ", "\t", "\n", "\r"}

\* String.prototype.trim on a character sequence
RECURSIVE TrimStart(_)
TrimStart(cs) ==
  IF cs # <<>> /\ Head(cs) \in WhiteSpace THEN TrimStart(Tail(cs)) ELSE cs

RECURSIVE TrimEnd(_)
TrimEnd(cs) ==
  IF cs # <<>> /\ cs[Len(cs)] \in WhiteSpace
  THEN TrimEnd(SubSeq(cs, 1, Len(cs) - 1)) ELSE cs

Trim(cs) == TrimEnd(TrimStart(cs))

\* REFERENCE_PATTERN as an automaton over the characters:
\* ^([1-3]?\s*[A-Za-z]+(?:\s+[A-Za-z]+)*)\s*(\d+):(\d+)(?:-(\d+))?$
PatternStep(q, c) ==
  CASE q = "ordinal" ->
         IF c \in {"1", "2", "3"} \/ c \in WhiteSpace THEN "bookGap"
         ELSE IF c \in Letters THEN "book" ELSE "fail"
    [] q = "bookGap" ->
         IF c \in WhiteSpace THEN "bookGap"
         ELSE IF c \in Letters THEN "book" ELSE "fail"
    [] q \in {"book", "space"} ->
         IF c \in Letters THEN "book"
         ELSE IF c \in WhiteSpace THEN "space"
         ELSE IF c \in Digits THEN "chapter" ELSE "fail"
    [] q = "chapter" ->
         IF c \in Digits THEN "chapter"
         ELSE IF c = ":" THEN "colon" ELSE "fail"
    [] q = "colon" -> IF c \in Digits THEN "verse" ELSE "fail"
    [] q = "verse" ->
         IF c \in Digits THEN "verse"
         ELSE IF c = "-" THEN "dash" ELSE "fail"
    [] q = "dash" -> IF c \in Digits THEN "verseEnd" ELSE "fail"
    [] q = "verseEnd" -> IF c \in Digits THEN "verseEnd" ELSE "fail"
    [] OTHER -> "fail"

RECURSIVE PatternRun(_, _)
PatternRun(q, cs) ==
  IF cs = <<>> THEN q ELSE PatternRun(PatternStep(q, Head(cs)), Tail(cs))

REFERENCE_PATTERN(cs) == PatternRun("ordinal", cs) \in {"verse", "verseEnd"}

\* ------------------------------------------------------------------------
\* useQuoteCreation
\* ------------------------------------------------------------------------
parseReferenceLoose(reference) ==
  [valid |-> Trim(Chars(reference)) # <<>>]

\* parseInt(digits, 10) on a run of decimal digits
RECURSIVE parseInt(_)
parseInt(digits) ==
  LET DigitValue(c) ==
        CHOOSE n \in 0..9 :
          <<"0", "1", "2", "3", "4", "5", "6", "7", "8", "9">>[n + 1] = c
  IN IF digits = <<>> THEN 0
     ELSE 10 * parseInt(SubSeq(digits, 1, Len(digits) - 1))
            + DigitValue(digits[Len(digits)])

\* reference.trim().match(REFERENCE_PATTERN): null, or the four capture
\* groups. The book group is greedy and ends with a letter, so it runs to the
\* last letter; the chapter is the digits up to the colon, the verse the
\* digits after it, and the last group is undefined without a dash.
matchGroups(cs) ==
  IF ~REFERENCE_PATTERN(cs) THEN NullRec
  ELSE LET lastLetter ==
             CHOOSE i \in 1..Len(cs) :
               /\ cs[i] \in Letters
               /\ \A j \in (i + 1)..Len(cs) : cs[j] \notin Letters
           colon == CHOOSE i \in 1..Len(cs) : cs[i] = ":"
           HasDash == \E i \in 1..Len(cs) : cs[i] = "-"
           dash == IF HasDash THEN CHOOSE i \in 1..Len(cs) : cs[i] = "-"
                   ELSE Len(cs) + 1
       IN [book |-> SubSeq(cs, 1, lastLetter),
           chapter |-> TrimStart(SubSeq(cs, lastLetter + 1, colon - 1)),
           verseStart |-> SubSeq(cs, colon + 1, dash - 1),
           verseEnd |-> IF HasDash THEN Some(SubSeq(cs, dash + 1, Len(cs)))
                        ELSE None]

\* verseEnd ? parseInt(verseEnd, 10) : undefined
verseEndOrZero(group) ==
  IF group # None /\ group[1] # <<>> THEN Some(parseInt(group[1]))
  ELSE Some(0)

verseEndOf(group) ==
  IF group # None /\ group[1] # <<>> THEN Some(parseInt(group[1])) ELSE None

parseReference(reference) ==
  LET groups == matchGroups(Trim(Chars(reference)))
  IN IF groups = NullRec
     THEN [valid |-> FALSE, book |-> None, chapter |-> None,
           verseStart |-> None, verseEnd |-> None]
     ELSE [valid |-> TRUE,
           book |-> Some(Trim(groups.book)),
           chapter |-> Some(IF groups.chapter # <<>>
                            THEN parseInt(groups.chapter) ELSE 0),
           verseStart |-> Some(IF groups.verseStart # <<>>
                               THEN parseInt(groups.verseStart) ELSE 0),
           verseEnd |-> verseEndOf(groups.verseEnd)]

\* What the lookup service answers for a reference
LookupOutcome(reference, found) ==
  IF found
  THEN [success |-> TRUE, normalizedReference |-> reference, error |-> Null]
  ELSE [success |-> FALSE, normalizedReference |-> Null,
        error |-> "Lookup failed"]

unchangedByCreation ==
  <<syncVars, dragVars, editorVars, docVars, mergeVars, codecVars>>

MountQuoteCreation ==
  /\ "quoteCreation" \notin mounted
  /\ mounted' = mounted \cup {"quoteCreation"}
  /\ lookupTimerRef' = NullId
  /\ applied' = Null
  /\ lastEvent' = "mountQuoteCreation"
  /\ cleared' = {}
  /\ UNCHANGED <<state, timers, inflight>>
  /\ UNCHANGED unchangedByCreation

\* Effect cleanup on unmount; the ref goes with the instance
UnmountQuoteCreation ==
  /\ "quoteCreation" \in mounted
  /\ mounted' = mounted \ {"quoteCreation"}
  /\ timers' = clearIfSet(timers, lookupTimerRef)
  /\ applied' = Null
  /\ lookupTimerRef' = NullId
  /\ lastEvent' = "unmountQuoteCreation"
  /\ cleared' = ClearedBy(lookupTimerRef)
  /\ UNCHANGED <<state, inflight>>
  /\ UNCHANGED unchangedByCreation

startCreation ==
  /\ "quoteCreation" \in mounted
  /\ dispatch(Act("START_QUOTE_CREATION",
                  [selectedText |-> "selected text",
                   range |-> [startNodeId |-> 101, startOffset |-> 0,
                              endNodeId |-> 101, endOffset |-> OffsetStep],
                   spannedParagraphIds |-> <<101>>]))
  /\ applied' = Null
  /\ lastEvent' = "startCreation"
  /\ cleared' = {}
  /\ UNCHANGED <<timers, mounted, lookupTimerRef, inflight>>
  /\ UNCHANGED unchangedByCreation

updateReference ==
  \E input \in ReferenceInputs :
    /\ "quoteCreation" \in mounted
    /\ dispatch2(Act("UPDATE_REFERENCE_INPUT", input),
                 Act("SET_LOOKUP_RESULT", NullRec))
    /\ IF Trim(Chars(input)) # <<>> /\ parseReference(input).valid
       THEN /\ CanSetTimeout("lookup")
            /\ timers' = setTimeout(clearIfSet(timers, lookupTimerRef),
                                    FreshTimerId("lookup"), "lookup",
                                    [input |-> input])
            /\ lookupTimerRef' = FreshTimerId("lookup")
       ELSE /\ timers' = clearIfSet(timers, lookupTimerRef)
            /\ UNCHANGED lookupTimerRef
    /\ applied' = Null
    /\ lastEvent' = "updateReference"
    /\ cleared' = ClearedBy(lookupTimerRef)
    /\ UNCHANGED <<mounted, inflight>>
    /\ UNCHANGED unchangedByCreation

\* The debounce timer of updateReference fires: performLookup(input) up to
\* its await
FireLookupTimer ==
  \E t \in TimersOfKind("lookup") :
    LET reference == t.closure.input
    IN /\ timers' = timers \ {t}
       /\ IF ~parseReference(reference).valid
          THEN /\ dispatch(Act("SET_LOOKUP_RESULT",
                               [success |-> FALSE, normalizedReference |-> Null,
                                error |-> "Invalid reference format"]))
               /\ UNCHANGED inflight
          ELSE /\ BagCardinality(inflight) < MaxInflight
               /\ dispatch(Act("SET_IS_LOOKING_UP", TRUE))
               /\ inflight' = inflight (+) SetToBag({reference})
       /\ applied' = Null
       /\ lastEvent' = "fireLookupTimer"
       /\ cleared' = {}
       /\ UNCHANGED <<mounted, lookupTimerRef>>
       /\ UNCHANGED unchangedByCreation

\* A pending onLookupVerse promise settles: the rest of performLookup
LookupSettles ==
  \E reference \in BagToSet(inflight), found \in BOOLEAN :
    /\ inflight' = inflight (-) SetToBag({reference})
    /\ dispatch2(Act("SET_LOOKUP_RESULT", LookupOutcome(reference, found)),
                 Act("SET_IS_LOOKING_UP", FALSE))
    /\ applied' = reference
    /\ lastEvent' = "lookupSettles"
    /\ cleared' = {}
    /\ UNCHANGED <<timers, mounted, lookupTimerRef>>
    /\ UNCHANGED unchangedByCreation

cancel ==
  /\ "quoteCreation" \in mounted
  /\ timers' = clearIfSet(timers, lookupTimerRef)
  /\ lookupTimerRef' = NullId
  /\ dispatch(Act("CANCEL_QUOTE_CREATION", Null))
  /\ applied' = Null
  /\ lastEvent' = "cancel"
  /\ cleared' = ClearedBy(lookupTimerRef)
  /\ UNCHANGED <<mounted, inflight>>
  /\ UNCHANGED unchangedByCreation

\* setNonBiblical(flag): a non-biblical quote drops its lookup result
setNonBiblicalFlag ==
  \E isNonBiblical \in BOOLEAN :
    /\ "quoteCreation" \in mounted
    /\ IF isNonBiblical
       THEN dispatch2(Act("SET_IS_NON_BIBLICAL", isNonBiblical),
                      Act("SET_LOOKUP_RESULT", NullRec))
       ELSE dispatch(Act("SET_IS_NON_BIBLICAL", isNonBiblical))
    /\ applied' = Null
    /\ lastEvent' = "setNonBiblical"
    /\ cleared' = {}
    /\ UNCHANGED <<timers, mounted, lookupTimerRef, inflight>>
    /\ UNCHANGED unchangedByCreation

\* Ids of the quotes made by confirm; `quote_${Date.now()}_${random}` is an
\* id no quote of the list has
CreatedIds == (MaxQuotes + 1)..(MaxQuotes + MaxCreated)

FreshQuoteId(s) ==
  CHOOSE i \in CreatedIds \ QuoteIdsOf(s) :
    \A j \in CreatedIds \ QuoteIdsOf(s) : i <= j

\* lookupResult?.normalizedReference || referenceInput
ReferenceOf(c) ==
  IF c.lookupResult # NullRec /\ c.lookupResult.normalizedReference \notin {Null, ""}
  THEN c.lookupResult.normalizedReference
  ELSE c.referenceInput

\* The QuoteReviewItem that confirm builds from the creation slice
NewQuote(s) ==
  LET c == s.creation
  IN [id |-> FreshQuoteId(s), text |-> c.selectedText,
      reference |-> IF c.isNonBiblical THEN Null ELSE ReferenceOf(c),
      isNonBiblical |-> c.isNonBiblical, isReviewed |-> FALSE,
      interjections |-> <<>>,
      startOffset |-> IF c.selectedRange = NullRec THEN NoOffset
                      ELSE c.selectedRange.startOffset,
      endOffset |-> IF c.selectedRange = NullRec THEN NoOffset
                    ELSE c.selectedRange.endOffset,
      paragraphId |-> IF c.selectedRange = NullRec THEN NullId
                      ELSE c.selectedRange.startNodeId]

\* Variant: confirm that does not look at isCreating
confirmUnguarded ==
  /\ "quoteCreation" \in mounted
  /\ Len(state.quotes) < MaxCreated
  /\ dispatch2(Act("ADD_QUOTE", NewQuote(state)),
               Act("CONFIRM_QUOTE_CREATION", Null))
  /\ applied' = Null
  /\ lastEvent' = "confirm"
  /\ cleared' = {}
  /\ UNCHANGED <<timers, mounted, lookupTimerRef, inflight>>
  /\ UNCHANGED unchangedByCreation

\* confirm(): returns at once when no creation is in progress; the selection
\* of startCreation lies in one paragraph, so onParagraphMerge is not called.
\* The lookup timer and the lookups in flight are left as they are.
confirm ==
  /\ "quoteCreation" \in mounted
  /\ IF ~state.creation.isCreating
     THEN UNCHANGED state
     ELSE /\ Len(state.quotes) < MaxCreated
          /\ dispatch2(Act("ADD_QUOTE", NewQuote(state)),
                       Act("CONFIRM_QUOTE_CREATION", Null))
  /\ applied' = Null
  /\ lastEvent' = "confirm"
  /\ cleared' = {}
  /\ UNCHANGED <<timers, mounted, lookupTimerRef, inflight>>
  /\ UNCHANGED unchangedByCreation

\* ------------------------------------------------------------------------
\* QuoteBoundaryEditor inside QuoteAwareSermonEditor
\* ------------------------------------------------------------------------
\* Length of the text node of the quote element
QuoteTextLength == 4 * OffsetStep

unchangedByEditor ==
  <<ast, dragVars, creationVars, docVars, mergeVars, codecVars>>

\* handleEditBoundaries, then the first render of QuoteBoundaryEditor, whose
\* effect calls onEditStart
EditorHandleEditBoundaries ==
  /\ "boundaryEditor" \notin mounted
  /\ editorFocusedQuoteId # NullId
  /\ dispatch2(Act("ENTER_BOUNDARY_EDIT_MODE", editorFocusedQuoteId),
               Act("START_BOUNDARY_DRAG",
                   [quoteId |-> editorFocusedQuoteId, edge |-> "start",
                    offset |-> 0]))
  /\ mounted' = mounted \cup {"boundaryEditor"}
  /\ debounceTimerRef' = NullId
  /\ dragHandle' = Null
  /\ lastEvent' = "handleEditBoundaries"
  /\ cleared' = {}
  /\ UNCHANGED <<timers, editorFocusedQuoteId>>
  /\ UNCHANGED unchangedByEditor

handleMouseDown ==
  \E handle \in Edges :
    /\ "boundaryEditor" \in mounted
    /\ dragHandle' = handle
    /\ lastEvent' = "handleMouseDown"
    /\ cleared' = {}
    /\ UNCHANGED <<state, timers, mounted, debounceTimerRef,
                   editorFocusedQuoteId>>
    /\ UNCHANGED unchangedByEditor

\* insideQuote: the caret range of the mouse-up lies in the quote element
handleMouseUp ==
  \E insideQuote \in BOOLEAN, newOffset \in Offsets :
    /\ "boundaryEditor" \in mounted
    /\ dragHandle # Null
    /\ IF insideQuote
       THEN /\ CanSetTimeout("boundaryChange")
            /\ timers' = setTimeout(clearIfSet(timers, debounceTimerRef),
                                    FreshTimerId("boundaryChange"),
                                    "boundaryChange",
                                    [handle |-> dragHandle,
                                     newOffset |-> newOffset])
            /\ debounceTimerRef' = FreshTimerId("boundaryChange")
       ELSE UNCHANGED <<timers, debounceTimerRef>>
    /\ dragHandle' = Null
    /\ lastEvent' = "handleMouseUp"
    /\ cleared' = (IF insideQuote THEN ClearedBy(debounceTimerRef) ELSE {})
    /\ UNCHANGED <<state, mounted, editorFocusedQuoteId>>
    /\ UNCHANGED unchangedByEditor

\* The debounce timer of handleMouseUp fires: onBoundaryChange
FireBoundaryChangeTimer ==
  \E t \in TimersOfKind("boundaryChange") :
    LET c == t.closure
        startOffset == IF c.handle = "start" THEN c.newOffset ELSE 0
        endOffset == IF c.handle = "end" THEN c.newOffset + 1
                     ELSE QuoteTextLength
    IN /\ timers' = timers \ {t}
       /\ dispatch(Act("UPDATE_BOUNDARY_PREVIEW",
                       [startOffset |-> startOffset, endOffset |-> endOffset]))
       /\ lastEvent' = "fireBoundaryChangeTimer"
       /\ cleared' = {}
       /\ UNCHANGED <<mounted, debounceTimerRef, dragHandle,
                      editorFocusedQuoteId>>
       /\ UNCHANGED unchangedByEditor

\* Escape / Enter in the editor, or the editor leaving the tree: onEditEnd
\* and the effect cleanups
UnmountBoundaryEditor ==
  /\ "boundaryEditor" \in mounted
  /\ dispatch2(Act("COMMIT_BOUNDARY_CHANGE", Null),
               Act("EXIT_BOUNDARY_EDIT_MODE", Null))
  /\ timers' = clearIfSet(timers, debounceTimerRef)
  /\ mounted' = mounted \ {"boundaryEditor"}
  /\ debounceTimerRef' = NullId
  /\ dragHandle' = Null
  /\ lastEvent' = "unmountBoundaryEditor"
  /\ cleared' = ClearedBy(debounceTimerRef)
  /\ UNCHANGED editorFocusedQuoteId
  /\ UNCHANGED unchangedByEditor

\* ------------------------------------------------------------------------
\* Document context: updateDocumentState, handleUndo, handleRedo
\* ------------------------------------------------------------------------
\* Root snapshots
Roots == 0..(MaxRoots - 1)

\* Longest line of roots that is followed
MaxTimeline == MaxUndoDepth + 3

\* Highest edit version that is followed
MaxVersion == MaxTimeline + MaxUndoDepth + 1

\* Every change of the root bumps editVersion; externalAstVersion is bumped
\* unless the change comes from the rich-text editor
Bump(v, external) ==
  [editVersion |-> v.editVersion + 1,
   externalAstVersion |->
     IF external THEN v.externalAstVersion + 1 ELSE v.externalAstVersion]

\* Push onto a stack of bounded depth; the oldest entry is dropped
PushBounded(stack, root) ==
  LET pushed == Append(stack, root)
  IN IF Len(pushed) > MaxUndoDepth
     THEN SubSeq(pushed, 2, Len(pushed)) ELSE pushed

Pop(stack) == SubSeq(stack, 1, Len(stack) - 1)

Top(stack) == stack[Len(stack)]

unchangedByDoc ==
  <<state, syncVars, timerVars, dragVars, creationVars, editorVars, mergeVars,
    codecVars>>

\* updateDocumentState that keeps the redo stack
updateDocumentStateKeepsRedo ==
  \E newRoot \in Roots :
    /\ Len(rootHistory.timeline) < MaxTimeline
    /\ versions.editVersion < MaxVersion
    /\ doc' = [root |-> newRoot,
               undoStack |-> PushBounded(doc.undoStack, doc.root),
               redoStack |-> doc.redoStack]
    /\ rootHistory' =
         [timeline |-> Append(SubSeq(rootHistory.timeline, 1,
                                     rootHistory.position), newRoot),
          position |-> rootHistory.position + 1]
    /\ versions' = Bump(versions, TRUE)
    /\ lastEvent' = "updateDocumentState"
    /\ UNCHANGED unchangedByDoc

\* The previous root goes onto the undo stack and the redo stack is cleared
updateDocumentState ==
  \E newRoot \in Roots :
    /\ Len(rootHistory.timeline) < MaxTimeline
    /\ versions.editVersion < MaxVersion
    /\ doc' = [root |-> newRoot,
               undoStack |-> PushBounded(doc.undoStack, doc.root),
               redoStack |-> <<>>]
    /\ rootHistory' =
         [timeline |-> Append(SubSeq(rootHistory.timeline, 1,
                                     rootHistory.position), newRoot),
          position |-> rootHistory.position + 1]
    /\ versions' = Bump(versions, TRUE)
    /\ lastEvent' = "updateDocumentState"
    /\ UNCHANGED unchangedByDoc

handleUndo ==
  /\ IF doc.undoStack = <<>>
     THEN UNCHANGED docVars
     ELSE /\ versions.editVersion < MaxVersion
          /\ versions' = Bump(versions, TRUE)
          /\ doc' = [root |-> Top(doc.undoStack),
                     undoStack |-> Pop(doc.undoStack),
                     redoStack |-> Append(doc.redoStack, doc.root)]
          /\ rootHistory' =
               [rootHistory EXCEPT !.position = rootHistory.position - 1]
  /\ lastEvent' = "handleUndo"
  /\ UNCHANGED unchangedByDoc

handleRedo ==
  /\ IF doc.redoStack = <<>>
     THEN UNCHANGED docVars
     ELSE /\ versions.editVersion < MaxVersion
          /\ versions' = Bump(versions, TRUE)
          /\ doc' = [root |-> Top(doc.redoStack),
                     undoStack |-> PushBounded(doc.undoStack, doc.root),
                     redoStack |-> Pop(doc.redoStack)]
          /\ rootHistory' =
               [rootHistory EXCEPT !.position = rootHistory.position + 1]
  /\ lastEvent' = "handleRedo"
  /\ UNCHANGED unchangedByDoc

\* Variant: the editor's own change bumps externalAstVersion as well
handleAstChangeBumpsExternal ==
  \E newRoot \in Roots :
    /\ Len(rootHistory.timeline) < MaxTimeline
    /\ versions.editVersion < MaxVersion
    /\ doc' = [root |-> newRoot,
               undoStack |-> PushBounded(doc.undoStack, doc.root),
               redoStack |-> <<>>]
    /\ rootHistory' =
         [timeline |-> Append(SubSeq(rootHistory.timeline, 1,
                                     rootHistory.position), newRoot),
          position |-> rootHistory.position + 1]
    /\ versions' = Bump(versions, TRUE)
    /\ lastEvent' = "handleAstChange"
    /\ UNCHANGED unchangedByDoc

\* The rich-text editor reports its own change: the same update of the
\* document, with externalAstVersion left alone
handleAstChange ==
  \E newRoot \in Roots :
    /\ Len(rootHistory.timeline) < MaxTimeline
    /\ versions.editVersion < MaxVersion
    /\ doc' = [root |-> newRoot,
               undoStack |-> PushBounded(doc.undoStack, doc.root),
               redoStack |-> <<>>]
    /\ rootHistory' =
         [timeline |-> Append(SubSeq(rootHistory.timeline, 1,
                                     rootHistory.position), newRoot),
          position |-> rootHistory.position + 1]
    /\ versions' = Bump(versions, FALSE)
    /\ lastEvent' = "handleAstChange"
    /\ UNCHANGED unchangedByDoc

\* DevASTPanel.handleEditorChange: text that does not parse to a document
\* root is kept as a draft only; a document root goes to updateDocumentState
DevPanelHandleEditorChange ==
  \E isDocument \in BOOLEAN, newRoot \in Roots :
    /\ IF ~isDocument
       THEN UNCHANGED docVars
       ELSE /\ Len(rootHistory.timeline) < MaxTimeline
            /\ versions.editVersion < MaxVersion
            /\ doc' = [root |-> newRoot,
                       undoStack |-> PushBounded(doc.undoStack, doc.root),
                       redoStack |-> <<>>]
            /\ rootHistory' =
                 [timeline |-> Append(SubSeq(rootHistory.timeline, 1,
                                             rootHistory.position), newRoot),
                  position |-> rootHistory.position + 1]
            /\ versions' = Bump(versions, TRUE)
    /\ lastEvent' = "devPanelEditorChange"
    /\ UNCHANGED unchangedByDoc

\* ------------------------------------------------------------------------
\* useInterjectionDetection
\* ------------------------------------------------------------------------
\* Confidence weights are percentages
INTERJECTION_PATTERNS ==
  <<[phrases |-> {<<"amen">>}, confidence |-> 95,
     context |-> "Common affirmation"],
    [phrases |-> {<<"hallelujah">>, <<"alleluia">>}, confidence |-> 95,
     context |-> "Praise expression"],
    [phrases |-> {<<"praise", "the", "lord">>, <<"praise", "god">>},
     confidence |-> 90, context |-> "Praise expression"],
    [phrases |-> {<<"glory", "to", "god">>, <<"glory", "be">>},
     confidence |-> 85, context |-> "Glorification"],
    [phrases |-> {<<"yes", "lord">>}, confidence |-> 75,
     context |-> "Affirmation"],
    [phrases |-> {<<"thank", "you", "jesus">>, <<"thank", "you", "lord">>},
     confidence |-> 80, context |-> "Thanksgiving"],
    [phrases |-> {<<"come", "on">>, <<"c'mon">>}, confidence |-> 60,
     context |-> "Encouragement"],
    [phrases |-> {<<"that's", "right">>}, confidence |-> 55,
     context |-> "Agreement"],
    [phrases |-> {<<"mmhmm">>, <<"mhm">>, <<"uh-huh">>}, confidence |-> 70,
     context |-> "Verbal affirmation"],
    [phrases |-> {<<"wow">>, <<"oh">>, <<"ah">>}, confidence |-> 40,
     context |-> "Exclamation"]>>

AUTO_DETECT_THRESHOLD == 50

HIGH_CONFIDENCE_THRESHOLD == 80

\* Quote texts, as their words; the words of a text are separated by one
\* space
QuoteTexts ==
  {<<"grace", "and", "peace">>,
   <<"amen", "hallelujah">>,
   <<"wow", "yes", "lord">>,
   <<"come", "on", "amen">>}

\* Punctuation follows the word before it without a space
Punctuation == {",", ".", "!"}

\* The flag i of the patterns: the lower-case form of a word
Lower(word) ==
  CASE word = "Blessed" -> "blessed"
    [] word = "For" -> "for"
    [] word = "God" -> "god"
    [] word = "Wow" -> "wow"
    [] word = "Amen" -> "amen"
    [] word = "He" -> "he"
    [] word = "Hallelujah" -> "hallelujah"
    [] OTHER -> word

WordLength(word) ==
  CASE word \in {"!", ",", "."} -> 1
    [] word \in {"He", "ah", "be", "he", "in", "is", "oh", "on", "so", "to"} -> 2
    [] word \in {"For", "God", "Wow", "and", "are", "for", "god", "his",
                     "mhm", "son", "the", "wow", "yes", "you"} -> 3
    [] word \in {"Amen", "amen", "come", "gave", "lord", "only", "poor",
                     "that"} -> 4
    [] word \in {"c'mon", "glory", "grace", "jesus", "loved", "mmhmm",
                     "peace", "right", "risen", "thank", "world"} -> 5
    [] word \in {"indeed", "praise", "spirit", "that's", "theirs", "uh-huh"} -> 6
    [] word \in {"Blessed", "amazing"} -> 7
    [] word \in {"alleluia"} -> 8
    [] word \in {"Hallelujah", "hallelujah"} -> 10
    [] OTHER -> 3

\* Offset of the first character of word i
RECURSIVE WordOffset(_, _)
WordOffset(words, i) ==
  IF i = 1 THEN 0
  ELSE WordOffset(words, i - 1) + WordLength(words[i - 1])
         + (IF words[i] \in Punctuation THEN 0 ELSE 1)

\* Offset after the last character of word i
WordEnd(words, i) == WordOffset(words, i) + WordLength(words[i])

PhraseAt(words, i, phrase) ==
  /\ i + Len(phrase) - 1 <= Len(words)
  /\ \A k \in 1..Len(phrase) : Lower(words[i + k - 1]) = phrase[k]

\* The match of pattern p that starts at word i, if there is one
MatchesAt(words, i, p) ==
  LET hits == {phrase \in INTERJECTION_PATTERNS[p].phrases :
                 PhraseAt(words, i, phrase)}
  IN IF hits = {} THEN <<>>
     ELSE LET phrase == CHOOSE h \in hits : TRUE
          IN <<[startOffset |-> WordOffset(words, i),
                endOffset |-> WordEnd(words, i + Len(phrase) - 1),
                confidence |-> INTERJECTION_PATTERNS[p].confidence,
                context |-> INTERJECTION_PATTERNS[p].context]>>

\* The matches that start at word i, of pattern p and the patterns after it
RECURSIVE MatchesStartingAt(_, _, _)
MatchesStartingAt(words, i, p) ==
  IF p > Len(INTERJECTION_PATTERNS) THEN <<>>
  ELSE MatchesAt(words, i, p) \o MatchesStartingAt(words, i, p + 1)

\* All matches, sorted by position
RECURSIVE SortedMatches(_, _, _)
SortedMatches(words, i, p) ==
  IF i > Len(words) THEN <<>>
  ELSE MatchesStartingAt(words, i, p) \o SortedMatches(words, i + 1, 1)

Overlaps(match, m) ==
  \/ match.startOffset >= m.startOffset /\ match.startOffset < m.endOffset
  \/ match.endOffset > m.startOffset /\ match.endOffset <= m.endOffset

\* Remove overlapping matches, keeping the higher confidence
RECURSIVE RemoveOverlaps(_, _)
RemoveOverlaps(matches, filteredMatches) ==
  IF matches = <<>> THEN filteredMatches
  ELSE LET match == Head(matches)
           over == {k \in DOMAIN filteredMatches :
                      Overlaps(match, filteredMatches[k])}
       IN IF over = {}
          THEN RemoveOverlaps(Tail(matches), Append(filteredMatches, match))
          ELSE LET index == CHOOSE k \in over : \A l \in over : k <= l
               IN IF match.confidence > filteredMatches[index].confidence
                  THEN RemoveOverlaps(Tail(matches),
                         [filteredMatches EXCEPT ![index] = match])
                  ELSE RemoveOverlaps(Tail(matches), filteredMatches)

\* The matches in the order the patterns find them, one pattern after the
\* other
RECURSIVE MatchesOfPattern(_, _, _)
MatchesOfPattern(words, p, i) ==
  IF i > Len(words) THEN <<>>
  ELSE MatchesAt(words, i, p) \o MatchesOfPattern(words, p, i + 1)

RECURSIVE MatchesOfPatterns(_, _, _)
MatchesOfPatterns(words, p, i) ==
  IF p > Len(INTERJECTION_PATTERNS) THEN <<>>
  ELSE MatchesOfPattern(words, p, i) \o MatchesOfPatterns(words, p + 1, 1)

findMatchesUnsorted(words) ==
  RemoveOverlaps(MatchesOfPatterns(words, 1, 1), <<>>)

findMatches(words) == RemoveOverlaps(SortedMatches(words, 1, 1), <<>>)

AtLeast(matches, effectiveThreshold) ==
  SelectSeq(matches, LAMBDA m : m.confidence >= effectiveThreshold)

\* detectInterjections that confirms high-confidence matches by itself
detectInterjectionsAutoConfirm(words, threshold, highConfidenceOnly) ==
  LET effectiveThreshold ==
        IF highConfidenceOnly THEN HIGH_CONFIDENCE_THRESHOLD ELSE threshold
      kept == AtLeast(findMatches(words), effectiveThreshold)
  IN [k \in DOMAIN kept |->
        [startOffset |-> kept[k].startOffset, endOffset |-> kept[k].endOffset,
         confirmed |-> kept[k].confidence >= HIGH_CONFIDENCE_THRESHOLD,
         rejected |-> FALSE,
         confidence |-> kept[k].confidence, context |-> kept[k].context]]

detectInterjections(words, threshold, highConfidenceOnly) ==
  LET effectiveThreshold ==
        IF highConfidenceOnly THEN HIGH_CONFIDENCE_THRESHOLD ELSE threshold
      kept == AtLeast(findMatches(words), effectiveThreshold)
  IN [k \in DOMAIN kept |->
        [startOffset |-> kept[k].startOffset, endOffset |-> kept[k].endOffset,
         confirmed |-> FALSE, rejected |-> FALSE,
         confidence |-> kept[k].confidence, context |-> kept[k].context]]

unchangedByInterjection == <<syncVars, outsideSync>>

startEditing ==
  \E quoteId \in QuoteIds, words \in QuoteTexts,
     highConfidenceOnly \in BOOLEAN :
    /\ dispatch2(Act("ENTER_INTERJECTION_EDIT_MODE", quoteId),
                 Act("SET_PENDING_INTERJECTION_CANDIDATES",
                     detectInterjections(words, AUTO_DETECT_THRESHOLD,
                                         highConfidenceOnly)))
    /\ lastEvent' = "startEditing"
    /\ UNCHANGED unchangedByInterjection

confirmInterjection ==
  \E index \in 0..MaxCandidates :
    /\ dispatch(Act("CONFIRM_INTERJECTION_CANDIDATE", index))
    /\ lastEvent' = "confirmInterjection"
    /\ UNCHANGED unchangedByInterjection

rejectInterjection ==
  \E index \in 0..MaxCandidates :
    /\ dispatch(Act("REJECT_INTERJECTION_CANDIDATE", index))
    /\ lastEvent' = "rejectInterjection"
    /\ UNCHANGED unchangedByInterjection

\* Spans the user selects by hand: the first word and a later word
Selections ==
  {[text |-> "wow", startOffset |-> 0, endOffset |-> 3],
   [text |-> "lord", startOffset |-> 8, endOffset |-> 12]}

markSelectionAsInterjection ==
  \E selection \in Selections :
    LET startOffset == selection.startOffset
        endOffset == selection.endOffset
        newCandidate ==
          [startOffset |-> startOffset, endOffset |-> endOffset,
           confirmed |-> TRUE, rejected |-> FALSE, confidence |-> 100,
           context |-> "Manually marked"]
        currentCandidates == state.interjectionEdit.pendingCandidates
        after == {k \in DOMAIN currentCandidates :
                    currentCandidates[k].startOffset > startOffset}
        insertIndex ==
          IF after = {} THEN Len(currentCandidates) + 1
          ELSE CHOOSE k \in after : \A l \in after : k <= l
    IN /\ Len(currentCandidates) < MaxCandidates
       /\ dispatch2(Act("SET_INTERJECTION_SELECTION",
                        [text |-> selection.text,
                         range |-> [start |-> startOffset,
                                    end |-> endOffset]]),
                    Act("SET_PENDING_INTERJECTION_CANDIDATES",
                        SubSeq(currentCandidates, 1, insertIndex - 1)
                          \o <<newCandidate>>
                          \o SubSeq(currentCandidates, insertIndex,
                                    Len(currentCandidates))))
       /\ lastEvent' = "markSelectionAsInterjection"
       /\ UNCHANGED unchangedByInterjection

exitEditing ==
  /\ dispatch(Act("EXIT_INTERJECTION_EDIT_MODE", Null))
  /\ lastEvent' = "exitEditing"
  /\ UNCHANGED unchangedByInterjection

\* ------------------------------------------------------------------------
\* Initial state
\* ------------------------------------------------------------------------
InitTimers == timers = {} /\ mounted = {} /\ cleared = {}

InitDrag ==
  /\ commitTimerRef = NullId
  /\ lastCommittedOffsetRef = NoOffset
  /\ delivered = NullRec
  /\ preview = NullRec

InitCreation ==
  /\ lookupTimerRef = NullId
  /\ inflight = EmptyBag
  /\ applied = Null

InitEditor == debounceTimerRef = NullId /\ dragHandle = Null

InitDoc ==
  /\ doc = [root |-> 0, undoStack |-> <<>>, redoStack |-> <<>>]
  /\ rootHistory = [timeline |-> <<0>>, position |-> 1]
  /\ versions = [editVersion |-> 0, externalAstVersion |-> 0]

InitMerge ==
  /\ pendingMerge = NullRec
  /\ autoConfirm = FALSE
  /\ mergeRequest = <<>>
  /\ mergePreview = NullRec
  /\ mergeConfirmed = <<>>

InitSync ==
  /\ ast \in [QuoteIds -> {QuoteBlock(r, v) : r \in References, v \in BOOLEAN}]
  /\ editorFocusedQuoteId = NullId

\* Nothing converted, saved, restored or parsed yet
InitBridge ==
  /\ astRoot = NullRec
  /\ conversionOptions = NullRec
  /\ editorTree = NullRec
  /\ existingRoot = NullRec
  /\ conversion = NullRec

InitHistory ==
  /\ editedState = NullRec
  /\ saveOptions = NullRec
  /\ historyItem = NullRec
  /\ restored = NullRec

InitParse == referenceText = "" /\ parsed = NullRec

InitDetect == detectionInput = NullRec /\ detected = NullRec

\* No document id, nothing saved
InitPersist ==
  /\ documentId = Null
  /\ storage = [id \in DocumentIds |-> NullRec]
  /\ writes = <<>>

InitQuoteReview ==
  /\ state = initialState
  /\ lastEvent = "init"
  /\ InitSync
  /\ InitTimers /\ InitDrag /\ InitCreation /\ InitEditor /\ InitDoc
  /\ InitMerge

Init ==
  /\ InitQuoteReview
  /\ InitBridge /\ InitHistory /\ InitParse /\ InitDetect /\ InitPersist

\* The hooks run over a document whose quotes are all unverified
InitHooks ==
  /\ Init
  /\ \A id \in QuoteIds : ast[id] = QuoteBlock("John 3:16", FALSE)

\* ------------------------------------------------------------------------
\* Specification of the quote list, its UI handlers and the AST
\* ------------------------------------------------------------------------
Next ==
  \/ LoadQuotes
  \/ StaleUpdateQuote
  \/ PanelSelectQuote
  \/ PanelHandleVerify
  \/ PanelHandleReferenceChange
  \/ PanelHandleDelete
  \/ navigateNext
  \/ toggleVerify
  \/ EditorQuoteClick
  \/ EditorHandleVerifyQuote
  \/ EditorHandleReferenceChange
  \/ EditorKeyDelete
  \/ ContextMenuVerify
  \/ ContextMenuDelete
  \/ FloatingBarDelete

Spec == Init /\ [][Next]_vars

\* ------------------------------------------------------------------------
\* Properties of the quote list and AST reconciliation
\* ------------------------------------------------------------------------
\* C1: after a quote was removed, an updateQuote dispatched for a missing id
\* leaves the whole quote-review state (quotes and every slice) unchanged.
C1_StaleUpdateIsNoop ==
  [][lastEvent' = "staleUpdateQuote" => state' = state]_vars

\* A stale update ran although a quote had been deleted from a loaded list.
C1_Witness ==
  /\ lastEvent = "staleUpdateQuote"
  /\ state.quotes # <<>>
  /\ \E id \in QuoteIds : id \notin QuoteIdsOf(state) /\ ~IsQuoteBlock(ast, id)

ItemsMatchAst ==
  \A i \in DOMAIN state.quotes :
    LET q == state.quotes[i]
    IN /\ IsQuoteBlock(ast, q.id)
       /\ q.isReviewed = ast[q.id].userVerified
       /\ q.reference = ast[q.id].reference

\* C7: every committing quote action reaches the AST as well as the reducer:
\* each listed item is a quote block whose userVerified and reference equal
\* the item's isReviewed and reference, and an item that leaves the list has
\* had its quote block converted back to a paragraph.
C7_CommitsReachAst ==
  /\ ItemsMatchAst
  /\ [][/\ ItemsMatchAst'
        /\ \A id \in QuoteIdsOf(state) \ QuoteIdsOf(state') :
             ~IsQuoteBlock(ast', id)]_vars

\* ------------------------------------------------------------------------
\* Specification of the hooks and the boundary editor
\* ------------------------------------------------------------------------
\* Each host is brought up on a provider in its initial state with nothing
\* scheduled; the hosts share no timer, ref or closure
Pristine ==
  /\ mounted = {}
  /\ state = initialState
  /\ timers = {}
  /\ inflight = EmptyBag
  /\ editorFocusedQuoteId = NullId

NextHooks ==
  \/ Pristine /\ MountBoundaryMutation
  \/ UnmountBoundaryMutation
  \/ startDrag
  \/ updateDrag
  \/ endDrag
  \/ FireCommitTimer
  \/ cancelDrag
  \/ Pristine /\ MountQuoteCreation
  \/ UnmountQuoteCreation
  \/ startCreation
  \/ updateReference
  \/ FireLookupTimer
  \/ LookupSettles
  \/ cancel
  \/ Pristine /\ EditorQuoteClick
  \/ EditorHandleEditBoundaries
  \/ handleMouseDown
  \/ handleMouseUp
  \/ FireBoundaryChangeTimer
  \/ UnmountBoundaryEditor

SpecHooks == InitHooks /\ [][NextHooks]_vars

\* ------------------------------------------------------------------------
\* Specification of the document context
\* ------------------------------------------------------------------------
NextUndo ==
  \/ updateDocumentState
  \/ handleUndo
  \/ handleRedo

SpecUndo == InitHooks /\ [][NextUndo]_vars

\* ------------------------------------------------------------------------
\* Specification of interjection editing
\* ------------------------------------------------------------------------
NextInterjection ==
  \/ startEditing
  \/ confirmInterjection
  \/ rejectInterjection
  \/ markSelectionAsInterjection
  \/ exitEditing

SpecInterjection == InitHooks /\ [][NextInterjection]_vars

\* ------------------------------------------------------------------------
\* Properties of the debounce timers
\* ------------------------------------------------------------------------
\* C3: for each debounced operation (boundary-drag commit, reference lookup,
\* boundary change of the editor handles) at most one timer is pending at
\* any time.
C3_AtMostOnePendingTimer ==
  \A i \in DOMAIN TimerKinds : Cardinality(TimersOfKind(TimerKinds[i])) <= 1

\* A second endDrag inside the debounce window has replaced the pending commit
C3_Witness ==
  /\ lastEvent = "endDrag"
  /\ "commit" \in cleared
  /\ Cardinality(TimersOfKind("commit")) = 1

\* C4: right after cancelDrag or the unmount of the boundary-mutation hook
\* no commit callback is scheduled, and right after cancel or the unmount of
\* the quote-creation hook no lookup callback is scheduled; so no callback
\* scheduled before the cancellation can run after it.
C4_NothingScheduledAfterCancel ==
  /\ lastEvent \in {"cancelDrag", "unmountBoundaryMutation"} =>
       TimersOfKind("commit") = {}
  /\ lastEvent \in {"cancel", "unmountQuoteCreation"} =>
       TimersOfKind("lookup") = {}

\* cancelDrag has cancelled a commit that was still scheduled
C4_Witness ==
  /\ lastEvent = "cancelDrag"
  /\ "commit" \in cleared
  /\ timers = {}

\* ------------------------------------------------------------------------
\* Properties of the boundary-drag hook
\* ------------------------------------------------------------------------
NonDraggedEdge(range, edge) ==
  IF edge = "start" THEN range.endOffset ELSE range.startOffset

\* C5: from startDrag until the drag ends or is cancelled, every preview
\* computed by updateDrag carries the same offset for the edge that is not
\* dragged: the first preview carries the baseline recorded by startDrag and
\* each later preview carries what the preview before it carried.
C5_NonDraggedEdgeFixed ==
  [][preview' # NullRec =>
       NonDraggedEdge(preview', state'.boundaryDrag.edge) =
         (IF preview # NullRec
          THEN NonDraggedEdge(preview, state.boundaryDrag.edge)
          ELSE state.boundaryDrag.originalOffset)]_vars

C5_Witness ==
  /\ lastEvent = "updateDrag"
  /\ preview # NullRec
  /\ state.boundaryDrag.currentOffset
       # NonDraggedEdge(preview, state.boundaryDrag.edge)
  /\ TimersOfKind("commit") # {}

\* C6: every result handed to onBoundaryCommit has
\* newStartOffset <= newEndOffset.
C6_CommittedRangeOrdered ==
  delivered # NullRec => delivered.newStartOffset <= delivered.newEndOffset

\* ------------------------------------------------------------------------
\* Properties of the quote-creation hook
\* ------------------------------------------------------------------------
\* C2: a lookup result is stored in creation.lookupResult only when the
\* input the lookup was started for equals the current reference input.
C2_OnlyCurrentLookupApplied ==
  applied # Null => applied = state.creation.referenceInput

\* C9 (as stated): every reference handed to the lookup service matches the
\* reference grammar.
C9_LookupOnlyForGrammar ==
  \A reference \in BagToSet(inflight) : REFERENCE_PATTERN(Chars(reference))

\* C9 (amended): every reference handed to the lookup service matches the
\* reference grammar once its surrounding whitespace is removed; for any
\* other input no lookup call is made, neither at once nor when a timer
\* fires.
C9_LookupOnlyForTrimmedGrammar ==
  \A reference \in BagToSet(inflight) :
    REFERENCE_PATTERN(Trim(Chars(reference)))

C9_Witness ==
  /\ state.creation.isLookingUp
  /\ \E reference \in BagToSet(inflight) :
       /\ ~REFERENCE_PATTERN(Chars(reference))
       /\ REFERENCE_PATTERN(Trim(Chars(reference)))

\* ------------------------------------------------------------------------
\* Properties of the document context
\* ------------------------------------------------------------------------
\* Reverse of a sequence
Reverse(seq) == [i \in 1..Len(seq) |-> seq[Len(seq) + 1 - i]]

\* C8: after updateDocumentState calls followed by N effective handleUndo
\* calls the current root is the root that was current N states earlier on
\* the line of roots, the undo stack holds the roots just before it, and the
\* redo stack holds exactly the undone roots, so a handleRedo directly after
\* an undo restores the root that the undo replaced.
C8_UndoRedoLaw ==
  LET timeline == rootHistory.timeline
      position == rootHistory.position
  IN /\ position \in 1..Len(timeline)
     /\ doc.root = timeline[position]
     /\ Len(doc.undoStack) <= position - 1
     /\ doc.undoStack =
          SubSeq(timeline, position - Len(doc.undoStack), position - 1)
     /\ doc.redoStack =
          Reverse(SubSeq(timeline, position + 1, Len(timeline)))

\* Two undos after more updates than the undo stack holds, then one redo
C8_Witness ==
  /\ lastEvent = "handleRedo"
  /\ Len(rootHistory.timeline) > MaxUndoDepth + 1
  /\ rootHistory.position = Len(rootHistory.timeline) - 1
  /\ doc.undoStack # <<>>
  /\ doc.root # rootHistory.timeline[Len(rootHistory.timeline)]

\* ------------------------------------------------------------------------
\* Properties of interjection editing
\* ------------------------------------------------------------------------
Detected(candidate) == candidate.context # "Manually marked"

\* Right after detection no candidate is confirmed
UnconfirmedAfterDetection ==
  lastEvent = "startEditing" =>
    \A k \in DOMAIN state.interjectionEdit.pendingCandidates :
      ~state.interjectionEdit.pendingCandidates[k].confirmed

\* A detected candidate that is confirmed after a step was confirmed before
\* it, or the step is a confirmInterjection that changed that one index
ConfirmedOnlyByConfirm ==
  LET pending == state.interjectionEdit.pendingCandidates
      after == state'.interjectionEdit.pendingCandidates
  IN \A k \in DOMAIN after :
       (Detected(after[k]) /\ after[k].confirmed) =>
         \/ \E j \in DOMAIN pending :
              /\ pending[j].confirmed
              /\ pending[j].startOffset = after[k].startOffset
              /\ pending[j].context = after[k].context
         \/ /\ lastEvent' = "confirmInterjection"
            /\ k \in DOMAIN pending
            /\ after = [pending EXCEPT ![k] =
                          Spread(@, [confirmed |-> TRUE, rejected |-> FALSE])]

\* C10: every candidate that detection places in pendingCandidates is
\* unconfirmed whatever its confidence, and a detected candidate becomes
\* confirmed only in a confirmInterjection step that changes the candidate
\* at that one index and nothing else.
C10_NoAutoConfirm ==
  [](UnconfirmedAfterDetection) /\ [][ConfirmedOnlyByConfirm]_vars

\* One detected candidate confirmed by the user next to a high-confidence
\* candidate that is still unconfirmed
C10_Witness ==
  LET pending == state.interjectionEdit.pendingCandidates
  IN /\ lastEvent = "confirmInterjection"
     /\ \E i, j \in DOMAIN pending :
          /\ Detected(pending[i]) /\ pending[i].confirmed
          /\ Detected(pending[j]) /\ ~pending[j].confirmed
          /\ pending[j].confidence >= HIGH_CONFIDENCE_THRESHOLD

\* ------------------------------------------------------------------------
\* Provider action creators called with a quote id that left the list
\* ------------------------------------------------------------------------
\* removeQuote(quoteId) for a quote of the list
removeQuote ==
  \E id \in QuoteIdsOf(state) :
    /\ dispatch(Act("REMOVE_QUOTE", id))
    /\ lastEvent' = "removeQuote"
    /\ UNCHANGED outsideSync
    /\ UNCHANGED syncVars

setFocusedQuote ==
  \E id \in QuoteIdsOf(state) :
    /\ dispatch(Act("SET_FOCUSED_QUOTE", id))
    /\ lastEvent' = "setFocusedQuote"
    /\ UNCHANGED outsideSync
    /\ UNCHANGED syncVars

\* The action creators that name a quote id, as the callers in the
\* repository use them (startBoundaryDrag(id, 'start', 0) is the editor's
\* onEditStart)
QuoteNamingActions(id) ==
  << Act("UPDATE_QUOTE", [quoteId |-> id, updates |-> [isReviewed |-> TRUE]]),
    Act("REMOVE_QUOTE", id),
    Act("MARK_QUOTE_REVIEWED", id),
    Act("SET_FOCUSED_QUOTE", id),
    Act("ENTER_BOUNDARY_EDIT_MODE", id),
    Act("START_BOUNDARY_DRAG", [quoteId |-> id, edge |-> "start", offset |-> 0]),
    Act("ENTER_INTERJECTION_EDIT_MODE", id) >>

\* A callback created while the quote was in the list runs after the quote
\* was removed
StaleQuoteAction ==
  \E id \in QuoteIds :
    /\ id \notin QuoteIdsOf(state)
    /\ \E k \in DOMAIN QuoteNamingActions(id) :
         /\ dispatch(QuoteNamingActions(id)[k])
         /\ lastEvent' = "staleQuoteAction"
    /\ UNCHANGED outsideSync
    /\ UNCHANGED syncVars

NextStale ==
  \/ LoadQuotes
  \/ setFocusedQuote
  \/ removeQuote
  \/ StaleQuoteAction

SpecStale == InitHooks /\ [][NextStale]_vars

\* C11: every mutating action that names a quote id (update, remove, mark
\* reviewed, set focus, enter boundary-edit mode, start boundary drag, enter
\* interjection-edit mode) leaves the whole state unchanged when the id is
\* not in the current quotes list.
C11_StaleActionsAreNoops ==
  [][lastEvent' = "staleQuoteAction" => state' = state]_vars

\* ------------------------------------------------------------------------
\* Properties of the commit debounce
\* ------------------------------------------------------------------------
DraggedEdge(result, edge) ==
  IF edge = "start" THEN result.newStartOffset ELSE result.newEndOffset

\* An endDrag called while a commit is pending leaves exactly one commit
\* scheduled, the one of this call, holding the offset of this call
SecondEndDragReplaces ==
  (commitTimerRef # NullId /\ lastEvent' = "endDrag") =>
    \E t \in timers' :
      /\ {u \in timers' : u.kind = "commit"} = {t}
      /\ t.id = commitTimerRef'
      /\ t.id # commitTimerRef
      /\ t.closure.newOffset = state.boundaryDrag.currentOffset

\* When the pending commit fires with an offset more than the threshold away
\* from the last committed one, onBoundaryCommit receives that offset and no
\* commit stays scheduled
PendingCommitDelivered ==
  \A t \in TimersOfKind("commit") :
    ( /\ lastEvent' = "fireCommitTimer"
      /\ lastCommittedOffsetRef # NoOffset
      /\ Abs(t.closure.newOffset - lastCommittedOffsetRef)
           > SIGNIFICANT_CHANGE_THRESHOLD ) =>
      /\ delivered' # NullRec
      /\ delivered'.quoteId = t.closure.quoteId
      /\ DraggedEdge(delivered', t.closure.edge) = t.closure.newOffset
      /\ {u \in timers' : u.kind = "commit"} = {}

\* C12: a second endDrag inside the debounce window replaces the pending
\* commit: one commit stays scheduled and it holds the second call's offset,
\* and when that offset differs from the last committed offset by more than
\* the threshold its firing hands onBoundaryCommit that offset once and
\* leaves nothing scheduled.
C12_SecondEndDragWins ==
  [][SecondEndDragReplaces /\ PendingCommitDelivered]_vars

\* The second endDrag has replaced a pending commit and its own offset is
\* more than the threshold away from the last committed one
C12_Witness ==
  /\ lastEvent = "endDrag"
  /\ "commit" \in cleared
  /\ lastCommittedOffsetRef # NoOffset
  /\ \E t \in TimersOfKind("commit") :
       /\ t.id = commitTimerRef
       /\ Abs(t.closure.newOffset - lastCommittedOffsetRef)
            > SIGNIFICANT_CHANGE_THRESHOLD

\* ------------------------------------------------------------------------
\* Specification of useQuoteCreation with confirm
\* ------------------------------------------------------------------------
NextCreation ==
  \/ MountQuoteCreation
  \/ UnmountQuoteCreation
  \/ startCreation
  \/ updateReference
  \/ FireLookupTimer
  \/ LookupSettles
  \/ setNonBiblicalFlag
  \/ confirm
  \/ cancel

SpecCreation == InitHooks /\ [][NextCreation]_vars

ParagraphInfos ==
  <<[id |-> 101, text |-> "Alpha ", startOffset |-> 0, endOffset |-> 6],
    [id |-> 102, text |-> " Beta", startOffset |-> 7, endOffset |-> 12],
    [id |-> 103, text |-> "Gamma", startOffset |-> 13, endOffset |-> 18]>>

\* Ids a caller passes; 104 is the id of no paragraph
MergeIds == {101, 102, 103, 104}

\* Lists of up to MaxMergeIds ids, each id once
MergeIdLists ==
  {ids \in UNION {[1..n -> MergeIds] : n \in 0..MaxMergeIds} :
     \A i, j \in DOMAIN ids : ids[i] = ids[j] => i = j}

getParagraphInfo(id) ==
  IF \E i \in DOMAIN ParagraphInfos : ParagraphInfos[i].id = id
  THEN ParagraphInfos[CHOOSE i \in DOMAIN ParagraphInfos :
                        ParagraphInfos[i].id = id]
  ELSE NullRec

\* paragraphIds.map(getParagraphInfo).filter(p => p !== null)
ResolvedParagraphs(paragraphIds) ==
  LET IsInfo(p) == p # NullRec
  IN SelectSeq([i \in DOMAIN paragraphIds |-> getParagraphInfo(paragraphIds[i])],
               IsInfo)

\* Variant: the paragraphs stay in the order the ids were passed
SortByStartOffsetKeepsOrder(ps) == ps

\* .sort((a, b) => a.startOffset - b.startOffset): ascending and stable
SortByStartOffset(ps) ==
  LET Before(i, j) ==
        \/ ps[i].startOffset < ps[j].startOffset
        \/ ps[i].startOffset = ps[j].startOffset /\ i < j
      Rank(j) == Cardinality({i \in DOMAIN ps : Before(i, j)}) + 1
  IN [k \in DOMAIN ps |-> ps[CHOOSE j \in DOMAIN ps : Rank(j) = k]]

\* parts.join(' ')
RECURSIVE JoinWithSpace(_)
JoinWithSpace(parts) ==
  IF parts = <<>> THEN <<>>
  ELSE IF Len(parts) = 1 THEN parts[1]
  ELSE parts[1] \o <<" ">> \o JoinWithSpace(Tail(parts))

\* paragraphs.map(p => p.text.trim()).join(' '), as a character sequence
MergedTextOf(paragraphs) ==
  JoinWithSpace([i \in DOMAIN paragraphs |-> Trim(Chars(paragraphs[i].text))])

\* Variant: the range of the first paragraph alone
previewMergeFirstRange(paragraphIds, auto) ==
  IF Len(paragraphIds) < 2 THEN NullRec
  ELSE LET paragraphs == SortByStartOffset(ResolvedParagraphs(paragraphIds))
       IN IF Len(paragraphs) < 2 THEN NullRec
          ELSE [paragraphIds |-> paragraphIds,
                mergedText |-> MergedTextOf(paragraphs),
                startOffset |-> paragraphs[1].startOffset,
                endOffset |-> paragraphs[1].endOffset,
                requiresConfirmation |-> ~auto]

\* previewMerge of an instance that was given getParagraphInfo
previewMerge(paragraphIds, auto) ==
  IF Len(paragraphIds) < 2 THEN NullRec
  ELSE LET paragraphs == SortByStartOffset(ResolvedParagraphs(paragraphIds))
       IN IF Len(paragraphs) < 2 THEN NullRec
          ELSE [paragraphIds |-> paragraphIds,
                mergedText |-> MergedTextOf(paragraphs),
                startOffset |-> paragraphs[1].startOffset,
                endOffset |-> paragraphs[Len(paragraphs)].endOffset,
                requiresConfirmation |-> ~auto]

unchangedByMerge ==
  <<state, syncVars, timers, cleared, dragVars, creationVars, editorVars,
    docVars, codecVars>>

\* First render of a component that uses the hook, with its options
MountParagraphMerge ==
  \E auto \in BOOLEAN :
    /\ "paragraphMerge" \notin mounted
    /\ mounted' = mounted \cup {"paragraphMerge"}
    /\ autoConfirm' = auto
    /\ pendingMerge' = NullRec
    /\ mergeRequest' = <<>>
    /\ mergePreview' = NullRec
    /\ mergeConfirmed' = <<>>
    /\ lastEvent' = "mountParagraphMerge"
    /\ UNCHANGED unchangedByMerge

\* The hook has no cleanup; its state goes with the instance
UnmountParagraphMerge ==
  /\ "paragraphMerge" \in mounted
  /\ mounted' = mounted \ {"paragraphMerge"}
  /\ autoConfirm' = FALSE
  /\ pendingMerge' = NullRec
  /\ mergeRequest' = <<>>
  /\ mergePreview' = NullRec
  /\ mergeConfirmed' = <<>>
  /\ lastEvent' = "unmountParagraphMerge"
  /\ UNCHANGED unchangedByMerge

\* A caller asks for a preview
PreviewMerge ==
  \E paragraphIds \in MergeIdLists :
    /\ "paragraphMerge" \in mounted
    /\ mergeRequest' = paragraphIds
    /\ mergePreview' = previewMerge(paragraphIds, autoConfirm)
    /\ mergeConfirmed' = <<>>
    /\ lastEvent' = "previewMerge"
    /\ UNCHANGED <<pendingMerge, autoConfirm, mounted>>
    /\ UNCHANGED unchangedByMerge

\* Variant: the callback runs whether or not autoConfirm is set
requestMergeAlwaysConfirms ==
  \E paragraphIds \in MergeIdLists :
    LET p == previewMerge(paragraphIds, autoConfirm)
    IN /\ "paragraphMerge" \in mounted
       /\ mergeRequest' = paragraphIds
       /\ mergePreview' = p
       /\ mergeConfirmed' = IF p = NullRec THEN <<>> ELSE <<p>>
       /\ pendingMerge' = IF p = NullRec \/ autoConfirm THEN pendingMerge ELSE p
       /\ lastEvent' = "requestMerge"
       /\ UNCHANGED <<autoConfirm, mounted>>
       /\ UNCHANGED unchangedByMerge

requestMerge ==
  \E paragraphIds \in MergeIdLists :
    LET p == previewMerge(paragraphIds, autoConfirm)
    IN /\ "paragraphMerge" \in mounted
       /\ mergeRequest' = paragraphIds
       /\ mergePreview' = p
       /\ IF p = NullRec
          THEN mergeConfirmed' = <<>> /\ UNCHANGED pendingMerge
          ELSE IF autoConfirm
               THEN mergeConfirmed' = <<p>> /\ UNCHANGED pendingMerge
               ELSE mergeConfirmed' = <<>> /\ pendingMerge' = p
       /\ lastEvent' = "requestMerge"
       /\ UNCHANGED <<autoConfirm, mounted>>
       /\ UNCHANGED unchangedByMerge

confirmMerge ==
  /\ "paragraphMerge" \in mounted
  /\ IF pendingMerge = NullRec
     THEN mergeConfirmed' = <<>> /\ UNCHANGED pendingMerge
     ELSE mergeConfirmed' = <<pendingMerge>> /\ pendingMerge' = NullRec
  /\ mergeRequest' = <<>>
  /\ mergePreview' = NullRec
  /\ lastEvent' = "confirmMerge"
  /\ UNCHANGED <<autoConfirm, mounted>>
  /\ UNCHANGED unchangedByMerge

\* Variant: cancelling hands the pending merge to the callback
cancelMergeConfirms ==
  /\ "paragraphMerge" \in mounted
  /\ pendingMerge' = NullRec
  /\ mergeConfirmed' = IF pendingMerge = NullRec THEN <<>> ELSE <<pendingMerge>>
  /\ mergeRequest' = <<>>
  /\ mergePreview' = NullRec
  /\ lastEvent' = "cancelMerge"
  /\ UNCHANGED <<autoConfirm, mounted>>
  /\ UNCHANGED unchangedByMerge

cancelMerge ==
  /\ "paragraphMerge" \in mounted
  /\ pendingMerge' = NullRec
  /\ mergeConfirmed' = <<>>
  /\ mergeRequest' = <<>>
  /\ mergePreview' = NullRec
  /\ lastEvent' = "cancelMerge"
  /\ UNCHANGED <<autoConfirm, mounted>>
  /\ UNCHANGED unchangedByMerge

NextMerge ==
  \/ MountParagraphMerge
  \/ UnmountParagraphMerge
  \/ PreviewMerge
  \/ requestMerge
  \/ confirmMerge
  \/ cancelMerge

SpecMerge == InitHooks /\ [][NextMerge]_vars

\* ------------------------------------------------------------------------
\* Properties of the paragraph merge
\* ------------------------------------------------------------------------
PendingNeedsConfirmation ==
  /\ autoConfirm => pendingMerge = NullRec
  /\ pendingMerge # NullRec => pendingMerge.requiresConfirmation

RequestMergeStep ==
  lastEvent' = "requestMerge" =>
    IF autoConfirm
    THEN /\ pendingMerge' = NullRec
         /\ mergeConfirmed' =
              IF mergePreview' = NullRec THEN <<>> ELSE <<mergePreview'>>
    ELSE /\ mergeConfirmed' = <<>>
         /\ pendingMerge' =
              IF mergePreview' = NullRec THEN pendingMerge ELSE mergePreview'

\* C14: without autoConfirm, requestMerge never invokes the merge callback
\* and only records the preview as the pending merge, and every pending
\* merge has requiresConfirmation = TRUE; with autoConfirm, requestMerge of
\* mergeable paragraphs invokes the callback exactly once with the preview,
\* and no merge is pending in any state.
C14_MergeNeedsConfirmation ==
  [](PendingNeedsConfirmation) /\ [][RequestMergeStep]_vars

\* A request without autoConfirm is pending and nothing was invoked
C14_Witness ==
  /\ lastEvent = "requestMerge"
  /\ ~autoConfirm
  /\ pendingMerge # NullRec
  /\ pendingMerge = mergePreview
  /\ mergeConfirmed = <<>>

\* The callback runs only in a confirmMerge with a merge pending, which
\* hands it that merge once, or in a requestMerge of an autoConfirm instance
ConfirmedOnlyWhenConfirmed ==
  mergeConfirmed' # <<>> =>
    \/ /\ lastEvent' = "confirmMerge"
       /\ pendingMerge # NullRec
       /\ mergeConfirmed' = <<pendingMerge>>
    \/ /\ lastEvent' = "requestMerge"
       /\ autoConfirm
       /\ mergeConfirmed' = <<mergePreview'>>

ConfirmMergeStep ==
  lastEvent' = "confirmMerge" =>
    /\ pendingMerge' = NullRec
    /\ mergeConfirmed' =
         IF pendingMerge = NullRec THEN <<>> ELSE <<pendingMerge>>

CancelMergeStep ==
  lastEvent' = "cancelMerge" =>
    /\ pendingMerge' = NullRec
    /\ mergeConfirmed' = <<>>

\* C15: confirmMerge invokes the merge callback once with the pending
\* preview and clears the pending slot, confirmMerge with nothing pending
\* invokes nothing, cancelMerge clears the pending slot and invokes nothing,
\* and the callback is invoked in no other step (an autoConfirm request
\* being a confirmed merge).
C15_CallbackOncePerConfirm ==
  [][ConfirmedOnlyWhenConfirmed /\ ConfirmMergeStep /\ CancelMergeStep]_vars

\* A pending merge was confirmed: the callback got it and the slot is empty
C15_Witness ==
  /\ lastEvent = "confirmMerge"
  /\ ~autoConfirm
  /\ Len(mergeConfirmed) = 1
  /\ mergeConfirmed[1].requiresConfirmation
  /\ pendingMerge = NullRec

\* The known paragraphs among the ids, in document order, whatever the
\* order of the ids
InDocumentOrder(paragraphIds) ==
  LET Named(p) == \E i \in DOMAIN paragraphIds : paragraphIds[i] = p.id
  IN SelectSeq(ParagraphInfos, Named)

SameIds(ids1, ids2) ==
  {ids1[i] : i \in DOMAIN ids1} = {ids2[i] : i \in DOMAIN ids2}

\* C16: for ids of which two or more name a known paragraph, previewMerge
\* returns as mergedText the trimmed texts of those paragraphs joined by a
\* single space in ascending startOffset order, the same text for every
\* order of the ids; for fewer than two it returns null.
C16_MergedTextInDocumentOrder ==
  lastEvent \in {"previewMerge", "requestMerge"} =>
    IF Len(InDocumentOrder(mergeRequest)) >= 2
    THEN /\ mergePreview # NullRec
         /\ mergePreview.paragraphIds = mergeRequest
         /\ mergePreview.mergedText
              = MergedTextOf(InDocumentOrder(mergeRequest))
         /\ \A i \in 1..(Len(InDocumentOrder(mergeRequest)) - 1) :
              InDocumentOrder(mergeRequest)[i].startOffset
                < InDocumentOrder(mergeRequest)[i + 1].startOffset
         /\ \A ids \in MergeIdLists :
              SameIds(ids, mergeRequest) =>
                previewMerge(ids, autoConfirm).mergedText
                  = mergePreview.mergedText
    ELSE mergePreview = NullRec

\* The second paragraph was named before the first, next to an unknown id:
\* the text is "Alpha Beta"
C16_Witness ==
  /\ lastEvent = "previewMerge"
  /\ mergeRequest = <<102, 104, 101>>
  /\ mergePreview # NullRec
  /\ mergePreview.mergedText
       = <<"A", "l", "p", "h", "a", " ", "B", "e", "t", "a">>

\* C17: a merge preview reports the union of the ranges of the paragraphs
\* it merges: its startOffset is the smallest startOffset and its endOffset
\* the largest endOffset among them.
C17_PreviewRangeIsUnion ==
  (lastEvent \in {"previewMerge", "requestMerge"} /\ mergePreview # NullRec) =>
    LET merged == {getParagraphInfo(mergeRequest[i]) :
                     i \in DOMAIN mergeRequest} \ {NullRec}
    IN /\ \E p \in merged : mergePreview.startOffset = p.startOffset
       /\ \A p \in merged : mergePreview.startOffset <= p.startOffset
       /\ \E p \in merged : mergePreview.endOffset = p.endOffset
       /\ \A p \in merged : mergePreview.endOffset >= p.endOffset

\* The last paragraph was named before the first: the preview spans both
C17_Witness ==
  /\ lastEvent = "requestMerge"
  /\ mergeRequest = <<103, 101>>
  /\ mergePreview # NullRec
  /\ mergePreview.startOffset = 0
  /\ mergePreview.endOffset = 18

\* ------------------------------------------------------------------------
\* Specification of the version counters of the document context
\* ------------------------------------------------------------------------
NextVersion ==
  \/ updateDocumentState
  \/ DevPanelHandleEditorChange
  \/ handleAstChange
  \/ handleUndo
  \/ handleRedo

SpecVersion == InitHooks /\ [][NextVersion]_vars

ExternalCallers ==
  {"updateDocumentState", "devPanelEditorChange", "handleUndo", "handleRedo"}

\* C18: externalAstVersion changes only in an update of the document whose
\* caller is not the rich-text editor (the dev AST panel, undo, redo), by
\* one; an update that comes from the editor bumps editVersion and leaves
\* externalAstVersion as it was.
C18_ExternalVersionFrame ==
  [][ /\ versions'.externalAstVersion # versions.externalAstVersion =>
           /\ lastEvent' \in ExternalCallers
           /\ versions'.externalAstVersion = versions.externalAstVersion + 1
           /\ versions'.editVersion = versions.editVersion + 1
      /\ lastEvent' = "handleAstChange" =>
           /\ versions'.externalAstVersion = versions.externalAstVersion
           /\ versions'.editVersion = versions.editVersion + 1 ]_vars

\* The editor changed the document after a change from the dev panel: the
\* edit version ran ahead of the external version
C18_Witness ==
  /\ lastEvent = "handleAstChange"
  /\ versions.externalAstVersion >= 1
  /\ versions.editVersion > versions.externalAstVersion
  /\ doc.undoStack # <<>>

\* ------------------------------------------------------------------------
\* Provider action creators of boundary-edit mode and of the boundary drag
\* ------------------------------------------------------------------------
enterBoundaryEditMode ==
  \E quoteId \in QuoteIdsOf(state) :
    /\ dispatch(Act("ENTER_BOUNDARY_EDIT_MODE", quoteId))
    /\ lastEvent' = "enterBoundaryEditMode"
    /\ UNCHANGED outsideSync
    /\ UNCHANGED syncVars

\* One edge of the preview is moved at a time
PreviewPairs ==
  {[startOffset |-> o, endOffset |-> NoOffset] : o \in Offsets} \cup
  {[startOffset |-> NoOffset, endOffset |-> o] : o \in Offsets}

updateBoundaryPreview ==
  \E pair \in PreviewPairs :
    /\ dispatch(Act("UPDATE_BOUNDARY_PREVIEW", pair))
    /\ lastEvent' = "updateBoundaryPreview"
    /\ UNCHANGED outsideSync
    /\ UNCHANGED syncVars

commitBoundaryChange ==
  /\ dispatch(Act("COMMIT_BOUNDARY_CHANGE", Null))
  /\ lastEvent' = "commitBoundaryChange"
  /\ UNCHANGED outsideSync
  /\ UNCHANGED syncVars

exitBoundaryEditMode ==
  /\ dispatch(Act("EXIT_BOUNDARY_EDIT_MODE", Null))
  /\ lastEvent' = "exitBoundaryEditMode"
  /\ UNCHANGED outsideSync
  /\ UNCHANGED syncVars

startBoundaryDrag ==
  \E quoteId \in QuoteIdsOf(state), edge \in Edges, offset \in Offsets :
    /\ dispatch(Act("START_BOUNDARY_DRAG",
                    [quoteId |-> quoteId, edge |-> edge, offset |-> offset]))
    /\ lastEvent' = "startBoundaryDrag"
    /\ UNCHANGED outsideSync
    /\ UNCHANGED syncVars

updateBoundaryDrag ==
  \E offset \in Offsets, wouldMerge \in BOOLEAN :
    /\ dispatch(Act("UPDATE_BOUNDARY_DRAG",
                    [offset |-> offset, wouldMerge |-> wouldMerge,
                     paragraphsToMerge |->
                       IF wouldMerge THEN <<101, 102>> ELSE <<>>]))
    /\ lastEvent' = "updateBoundaryDrag"
    /\ UNCHANGED outsideSync
    /\ UNCHANGED syncVars

endBoundaryDrag ==
  /\ dispatch(Act("END_BOUNDARY_DRAG", Null))
  /\ lastEvent' = "endBoundaryDrag"
  /\ UNCHANGED outsideSync
  /\ UNCHANGED syncVars

cancelBoundaryDrag ==
  /\ dispatch(Act("CANCEL_BOUNDARY_DRAG", Null))
  /\ lastEvent' = "cancelBoundaryDrag"
  /\ UNCHANGED outsideSync
  /\ UNCHANGED syncVars

NextBoundary ==
  \/ LoadQuotes
  \/ enterBoundaryEditMode
  \/ updateBoundaryPreview
  \/ commitBoundaryChange
  \/ exitBoundaryEditMode
  \/ startBoundaryDrag
  \/ updateBoundaryDrag
  \/ endBoundaryDrag
  \/ cancelBoundaryDrag

SpecBoundary == InitHooks /\ [][NextBoundary]_vars

BoundaryEditEvents ==
  {"enterBoundaryEditMode", "updateBoundaryPreview", "commitBoundaryChange",
   "exitBoundaryEditMode"}

BoundaryDragEvents ==
  {"startBoundaryDrag", "updateBoundaryDrag", "endBoundaryDrag",
   "cancelBoundaryDrag"}

\* C19: entering, previewing, committing or exiting boundary-edit mode leaves
\* the boundaryDrag slice as it was, and starting, updating, ending or
\* cancelling a drag leaves the boundaryEdit slice as it was; boundary-edit
\* mode can therefore be active while no drag is in progress.
C19_EditAndDragIndependent ==
  [][ /\ lastEvent' \in BoundaryEditEvents =>
           state'.boundaryDrag = state.boundaryDrag
      /\ lastEvent' \in BoundaryDragEvents =>
           state'.boundaryEdit = state.boundaryEdit ]_vars

\* Boundary-edit mode holds a preview after a drag was started and ended
C19_Witness ==
  /\ lastEvent = "endBoundaryDrag"
  /\ state.boundaryEdit.isActive
  /\ state.boundaryEdit.previewStartOffset # NoOffset
  /\ ~state.boundaryDrag.isDragging

\* ------------------------------------------------------------------------
\* Specification of verifying the quotes made by useQuoteCreation; the user
\* confirms or cancels before the lookup debounce has elapsed
\* ------------------------------------------------------------------------
NextVerify ==
  \/ MountQuoteCreation
  \/ startCreation
  \/ updateReference
  \/ setNonBiblicalFlag
  \/ confirm
  \/ cancel
  \/ setFocusedQuote
  \/ toggleVerify

SpecVerify == InitHooks /\ [][NextVerify]_vars

\* C20: in every state reached through the UI actions, each quote with
\* isReviewed = TRUE has a non-empty reference or is flagged non-biblical.
C20_VerifiedHasReference ==
  \A i \in DOMAIN state.quotes :
    state.quotes[i].isReviewed =>
      \/ state.quotes[i].isNonBiblical
      \/ state.quotes[i].reference \notin {Null, ""}

\* ------------------------------------------------------------------------
\* AST <-> TipTap converter (astTipTapConverter.ts)
\* ------------------------------------------------------------------------
\* JavaScript truthiness of an optional string
Truthy(opt) == opt # None /\ opt[1] # <<>>

\* a || b on optional strings
OrElse(a, b) == IF Truthy(a) THEN a ELSE b

RECURSIVE Concat(_)
Concat(seqs) == IF seqs = <<>> THEN <<>> ELSE Head(seqs) \o Concat(Tail(seqs))

\* Metadata of a node that is not a quote, and of a quote
NoMetadata == [normalizedReference |-> None, userVerified |-> FALSE]

\* Nodes of the AST; every node carries every field
AstNode(type, id, content, level, children, metadata, metadataId) ==
  [type |-> type, id |-> id, content |-> content, level |-> level,
   children |-> children, metadata |-> metadata, metadataId |-> metadataId]

TextNode(id, content) ==
  AstNode("text", id, content, 0, <<>>, NoMetadata, NullId)

InterjectionNode(id, content, metadataId) ==
  AstNode("interjection", id, content, 0, <<>>, NoMetadata, metadataId)

ParagraphNode(id, children) ==
  AstNode("paragraph", id, <<>>, 0, children, NoMetadata, NullId)

HeadingNode(id, level, children) ==
  AstNode("heading", id, <<>>, level, children, NoMetadata, NullId)

QuoteBlockNode(id, metadata, children) ==
  AstNode("quote_block", id, <<>>, 0, children, metadata, NullId)

DocumentRootNode(id, title, biblePassage, speaker, children) ==
  [id |-> id, type |-> "document", title |-> title,
   biblePassage |-> biblePassage, speaker |-> speaker, children |-> children]

\* Nodes and marks of the TipTap tree; contentIs tells whether the content
\* property is an array, is absent, or holds something that is no array
NoAttrs ==
  [nodeId |-> NullId, level |-> 0, textAlign |-> Null, reference |-> None,
   userVerified |-> FALSE]

TipTapMark(type, nodeId, metadataId) ==
  [type |-> type, nodeId |-> nodeId, metadataId |-> metadataId]

TipTapNode(type, attrs, contentIs, content, text, marks) ==
  [type |-> type, attrs |-> attrs, contentIs |-> contentIs,
   content |-> content, text |-> text, marks |-> marks]

TipTapText(text, marks) == TipTapNode("text", NoAttrs, "absent", <<>>, text, marks)

TipTapDocument(contentIs, content) ==
  [type |-> "doc", contentIs |-> contentIs, content |-> content]

\* const { preserveIds = true, includeMetadata = true,
\*         includeInterjections = true } = options
ConversionOptionSets ==
  [preserveIds : BOOLEAN, includeMetadata : {TRUE},
   includeInterjections : {TRUE}]

RECURSIVE convertNodeToTipTap(_, _)

\* The converted children that are not null, in order
ConvertedChildren(children, options) ==
  Concat([i \in DOMAIN children |-> convertNodeToTipTap(children[i], options)])

convertParagraphToTipTap(node, options) ==
  TipTapNode("paragraph",
             IF options.preserveIds
             THEN [NoAttrs EXCEPT !.nodeId = node.id] ELSE NoAttrs,
             "array", ConvertedChildren(node.children, options), <<>>, <<>>)

\* A converted text child of a quote is wrapped in a paragraph of its own
convertQuoteToTipTap(node, options) ==
  LET converted == ConvertedChildren(node.children, options)
      content ==
        [i \in DOMAIN converted |->
           IF converted[i].type = "text"
           THEN TipTapNode("paragraph", NoAttrs, "array", <<converted[i]>>,
                           <<>>, <<>>)
           ELSE converted[i]]
      withId == IF options.preserveIds
                THEN [NoAttrs EXCEPT !.nodeId = node.id] ELSE NoAttrs
      withReference ==
        IF options.includeMetadata /\ node.metadata.normalizedReference # None
        THEN [withId EXCEPT
                !.reference = node.metadata.normalizedReference]
        ELSE withId
      attrs ==
        IF options.includeMetadata
        THEN [withReference EXCEPT !.userVerified = node.metadata.userVerified]
        ELSE withReference
  IN TipTapNode("blockquote", attrs, "array",
                IF Len(content) > 0 THEN content
                ELSE <<TipTapNode("paragraph", NoAttrs, "array", <<>>, <<>>,
                                  <<>>)>>,
                <<>>, <<>>)

convertHeadingToTipTap(node, options) ==
  TipTapNode("heading",
             [NoAttrs EXCEPT
                !.level = node.level,
                !.nodeId = IF options.preserveIds THEN node.id ELSE NullId],
             "array", ConvertedChildren(node.children, options), <<>>, <<>>)

\* <<>> stands for null
convertNodeToTipTap(node, options) ==
  CASE node.type = "paragraph" -> <<convertParagraphToTipTap(node, options)>>
    [] node.type = "quote_block" -> <<convertQuoteToTipTap(node, options)>>
    [] node.type = "heading" -> <<convertHeadingToTipTap(node, options)>>
    [] node.type = "text" ->
         IF node.content = <<>> THEN <<>>
         ELSE <<TipTapText(node.content, <<>>)>>
    [] node.type = "interjection" /\ options.includeInterjections ->
         <<TipTapText(node.content,
                      <<IF options.preserveIds
                        THEN TipTapMark("interjection", node.id,
                                        node.metadataId)
                        ELSE TipTapMark("interjection", NullId, NullId)>>)>>
    [] OTHER -> <<>>

astToTipTapJson(root, options) ==
  LET titleNodes ==
        IF Truthy(root.title)
        THEN <<TipTapNode("heading",
                          [NoAttrs EXCEPT !.level = 1, !.textAlign = "center"],
                          "array", <<TipTapText(root.title[1], <<>>)>>,
                          <<>>, <<>>)>>
        ELSE <<>>
      passageNodes ==
        IF Truthy(root.biblePassage)
        THEN <<TipTapNode("paragraph", NoAttrs, "array",
                          <<TipTapText(Chars("Primary Reference: "),
                                       <<TipTapMark("bold", NullId, NullId)>>),
                            TipTapText(root.biblePassage[1], <<>>)>>,
                          <<>>, <<>>)>>
        ELSE <<>>
      content ==
        titleNodes \o passageNodes \o ConvertedChildren(root.children, options)
  IN [success |-> TRUE,
      data |-> TipTapDocument("array",
                 IF Len(content) = 0
                 THEN <<TipTapNode("paragraph", NoAttrs, "array", <<>>, <<>>,
                                   <<>>)>>
                 ELSE content),
      error |-> None, warnings |-> <<>>]

\* createNodeId() returns an id no other node has; the model numbers the
\* ids one conversion generates by the place of the node they are made for
createNodeId(slot) == 1000 + slot

\* 'root-1'
DefaultRootId == 1

\* A null entry of a content array
NullTipTapNode == TipTapNode(Null, NoAttrs, "absent", <<>>, <<>>, <<>>)

StartsWith(cs, prefix) ==
  Len(cs) >= Len(prefix) /\ SubSeq(cs, 1, Len(prefix)) = prefix

\* text.replace(/^<label>\s*/, '') for a text that starts with the label
StripLabel(cs, label) == TrimStart(SubSeq(cs, Len(label) + 1, Len(cs)))

RECURSIVE extractText(_)
extractText(node) ==
  IF node.text # <<>> THEN node.text
  ELSE IF node.contentIs = "array"
  THEN Concat([i \in DOMAIN node.content |-> extractText(node.content[i])])
  ELSE <<>>

\* extractText reads a property of null
RECURSIVE ExtractTextThrows(_)
ExtractTextThrows(node) ==
  \/ node.type = Null
  \/ /\ node.text = <<>>
     /\ node.contentIs = "array"
     /\ \E i \in DOMAIN node.content : ExtractTextThrows(node.content[i])

HasInterjectionMark(node) ==
  \E m \in DOMAIN node.marks : node.marks[m].type = "interjection"

\* node.marks?.find((m) => m.type === 'interjection')
InterjectionMarkOf(node) ==
  node.marks[CHOOSE m \in DOMAIN node.marks :
               /\ node.marks[m].type = "interjection"
               /\ \A k \in DOMAIN node.marks :
                    node.marks[k].type = "interjection" => m <= k]

convertTipTapInterjection(node, slot) ==
  LET mark == InterjectionMarkOf(node)
  IN InterjectionNode(
       IF mark.nodeId # NullId THEN mark.nodeId ELSE createNodeId(slot),
       node.text,
       IF mark.metadataId # NullId THEN mark.metadataId
       ELSE createNodeId(10 * slot))

\* id: preserveIds && node.attrs?.nodeId ? node.attrs.nodeId : createNodeId()
NodeIdOf(node, options, slot) ==
  IF options.preserveIds /\ node.attrs.nodeId # NullId
  THEN node.attrs.nodeId ELSE createNodeId(slot)

RECURSIVE convertTipTapToNode(_, _, _)

\* The converted children of a paragraph or heading, at least one text node
ConvertedContent(node, options, slot) ==
  LET children ==
        IF node.contentIs = "array"
        THEN Concat([i \in DOMAIN node.content |->
                       convertTipTapToNode(node.content[i], options,
                                           10 * slot + i)])
        ELSE <<>>
  IN IF Len(children) = 0
     THEN <<TextNode(createNodeId(10 * slot), <<>>)>> ELSE children

convertTipTapParagraph(node, options, slot) ==
  ParagraphNode(NodeIdOf(node, options, slot),
                ConvertedContent(node, options, slot))

convertTipTapHeading(node, options, slot) ==
  HeadingNode(NodeIdOf(node, options, slot),
              IF node.attrs.level # 0 THEN node.attrs.level ELSE 1,
              ConvertedContent(node, options, slot))

\* The text nodes of the paragraphs of a blockquote, flattened
convertTipTapBlockquote(node, options, slot) ==
  LET ofParagraph(child, k) ==
        IF child.type = "paragraph" /\ child.contentIs = "array"
        THEN Concat([j \in DOMAIN child.content |->
               LET textNode == child.content[j]
                   at == 100 * slot + 10 * k + j
               IN IF textNode.type # "text" THEN <<>>
                  ELSE IF HasInterjectionMark(textNode)
                  THEN <<convertTipTapInterjection(textNode, at)>>
                  ELSE <<TextNode(createNodeId(at), textNode.text)>>])
        ELSE <<>>
      children ==
        IF node.contentIs = "array"
        THEN Concat([k \in DOMAIN node.content |->
                       ofParagraph(node.content[k], k)])
        ELSE <<>>
      refString ==
        IF Truthy(node.attrs.reference) THEN node.attrs.reference
        ELSE Some(Chars("Unknown"))
  IN QuoteBlockNode(NodeIdOf(node, options, slot),
                    [normalizedReference |-> refString,
                     userVerified |-> node.attrs.userVerified],
                    children)

\* <<>> stands for null
convertTipTapToNode(node, options, slot) ==
  CASE node.type = "paragraph" -> <<convertTipTapParagraph(node, options, slot)>>
    [] node.type = "blockquote" ->
         <<convertTipTapBlockquote(node, options, slot)>>
    [] node.type = "heading" -> <<convertTipTapHeading(node, options, slot)>>
    [] node.type = "text" ->
         IF HasInterjectionMark(node)
         THEN <<convertTipTapInterjection(node, slot)>>
         ELSE <<TextNode(NodeIdOf(node, options, slot), node.text)>>
    [] OTHER -> <<>>

\* convertTipTapToNode reads a property of null
RECURSIVE ConvertThrows(_)
ConvertThrows(node) ==
  \/ node.type = Null
  \/ /\ node.type \in {"paragraph", "heading"}
     /\ node.contentIs = "array"
     /\ \E i \in DOMAIN node.content : ConvertThrows(node.content[i])
  \/ /\ node.type = "blockquote"
     /\ node.contentIs = "array"
     /\ \E k \in DOMAIN node.content :
          LET child == node.content[k]
          IN \/ child.type = Null
             \/ /\ child.type = "paragraph"
                /\ child.contentIs = "array"
                /\ \E j \in DOMAIN child.content :
                     child.content[j].type = Null

\* The first H1 is the title only if it is centered
IsTitleHeadingAnyFirst(node, isFirstNode) ==
  /\ node.type = "heading"
  /\ node.attrs.level = 1
  /\ isFirstNode

IsTitleHeading(node, isFirstNode) ==
  /\ node.type = "heading"
  /\ node.attrs.level = 1
  /\ isFirstNode
  /\ node.attrs.textAlign = "center"

\* What the loop of tipTapJsonToAst does with a top-level node
NodeRole(node, isFirstNode) ==
  IF IsTitleHeading(node, isFirstNode) THEN "title"
  ELSE IF node.type = "paragraph"
  THEN LET text == extractText(node)
       IN IF \/ StartsWith(text, Chars("Primary Reference:"))
             \/ StartsWith(text, Chars("Primary References:"))
          THEN "biblePassage"
          ELSE IF \/ StartsWith(text, Chars("References from the Sermon:"))
                  \/ StartsWith(text, Chars("Tags:"))
          THEN "skipped"
          ELSE IF StartsWith(text, Chars("Speaker:")) THEN "speaker"
          ELSE "child"
  ELSE IF node.type = "horizontalRule" THEN "skipped"
  ELSE "child"

\* text.replace(/^Primary References?:\s*/, '')
PassageOf(text) ==
  IF StartsWith(text, Chars("Primary References:"))
  THEN StripLabel(text, Chars("Primary References:"))
  ELSE StripLabel(text, Chars("Primary Reference:"))

\* The value the loop leaves in a variable that the nodes of one role assign
LastOfRole(content, role, value(_)) ==
  LET at == {i \in DOMAIN content : NodeRole(content[i], i = 1) = role}
  IN IF at = {} THEN None
     ELSE Some(value(extractText(content[CHOOSE i \in at :
                                             \A k \in at : k <= i])))

\* existingRoot?.id || 'root-1'
RootIdOf(options, existing) ==
  IF ~options.preserveIds THEN createNodeId(0)
  ELSE IF existing # NullRec /\ existing.id # NullId THEN existing.id
  ELSE DefaultRootId

\* existingRoot?.title and the like
ExistingField(existing, field) ==
  IF existing = NullRec THEN None ELSE existing[field]

\* The fallback that forgets the metadata of the existing root
EmptyDocumentResultBare(options, existing) ==
  [success |-> TRUE,
   data |-> DocumentRootNode(RootIdOf(options, existing), None, None, None,
                             <<>>),
   error |-> Null,
   warnings |-> <<"Document content was empty or invalid">>]

\* The result for a document whose content is missing or is no array
EmptyDocumentResult(options, existing) ==
  [success |-> TRUE,
   data |-> DocumentRootNode(RootIdOf(options, existing),
                             ExistingField(existing, "title"),
                             ExistingField(existing, "biblePassage"),
                             ExistingField(existing, "speaker"), <<>>),
   error |-> Null,
   warnings |-> <<"Document content was empty or invalid">>]

\* The root built from a content array
ConvertedRoot(tipTapDoc, options, existing) ==
  LET content == tipTapDoc.content
      Same(text) == text
      SpeakerOf(text) == StripLabel(text, Chars("Speaker:"))
      title == LastOfRole(content, "title", Same)
      biblePassage == LastOfRole(content, "biblePassage", PassageOf)
      speaker == LastOfRole(content, "speaker", SpeakerOf)
      children ==
        Concat([i \in DOMAIN content |->
                  IF NodeRole(content[i], i = 1) = "child"
                  THEN convertTipTapToNode(content[i], options, i) ELSE <<>>])
  IN DocumentRootNode(RootIdOf(options, existing),
                      OrElse(title, ExistingField(existing, "title")),
                      OrElse(biblePassage,
                             ExistingField(existing, "biblePassage")),
                      OrElse(speaker, ExistingField(existing, "speaker")),
                      children)

\* A null document
NullTipTapDocument == [type |-> Null, contentIs |-> "absent", content |-> <<>>]

\* The try block reads a property of null
ConversionThrows(tipTapDoc) ==
  \/ tipTapDoc.type = Null
  \/ /\ tipTapDoc.contentIs = "array"
     /\ \E i \in DOMAIN tipTapDoc.content :
          LET node == tipTapDoc.content[i]
          IN \/ node.type = Null
             \/ /\ NodeRole(node, i = 1) = "title"
                /\ ExtractTextThrows(node)
             \/ /\ node.type = "paragraph"
                /\ ExtractTextThrows(node)
             \/ /\ NodeRole(node, i = 1) = "child"
                /\ ConvertThrows(node)

\* A catch block that reports success with an empty root
CaughtResultAsEmpty(options, existing) ==
  [success |-> TRUE,
   data |-> DocumentRootNode(RootIdOf(options, existing), None, None, None,
                             <<>>),
   error |-> Null, warnings |-> <<>>]

\* The catch block
CaughtResult(options, existing) ==
  [success |-> FALSE, data |-> NullRec, error |-> "TypeError",
   warnings |-> <<>>]

tipTapJsonToAst(tipTapDoc, options, existing) ==
  IF ConversionThrows(tipTapDoc) THEN CaughtResult(options, existing)
  ELSE IF tipTapDoc.contentIs # "array" THEN EmptyDocumentResult(options, existing)
  ELSE [success |-> TRUE, data |-> ConvertedRoot(tipTapDoc, options, existing),
        error |-> Null, warnings |-> <<>>]

\* ------------------------------------------------------------------------
\* Specification of the converter: documents and editor trees it is given
\* ------------------------------------------------------------------------
\* Blocks of the documents the converter is given
AstBlocks ==
  {ParagraphNode(11, <<TextNode(41, Chars("Amen"))>>),
   ParagraphNode(12, <<TextNode(42, Chars("Speaker: Ann"))>>),
   ParagraphNode(13, <<TextNode(43, <<>>)>>),
   HeadingNode(21, 1, <<TextNode(44, Chars("Intro"))>>),
   QuoteBlockNode(31,
                  [normalizedReference |-> Some(Chars("John 3:16")),
                   userVerified |-> FALSE],
                  <<TextNode(45, Chars("Amen")),
                    InterjectionNode(46, Chars("hallelujah"), 47)>>)}

\* Sequences of at most n different elements of a set
SeqsUpTo(set, n) ==
  UNION {{seq \in [1..len -> set] :
            \A i, j \in 1..len : i # j => seq[i] # seq[j]} : len \in 0..n}

\* title, biblePassage and speaker of the documents
RootMetadata ==
  {<<None, None, None>>,
   <<Some(Chars("Easter")), None, None>>,
   <<None, Some(Chars("John 3:16")), Some(Chars("Ann"))>>,
   <<Some(Chars("Easter")), Some(Chars("John 3:16")), Some(Chars("Ann"))>>}

AstRoots ==
  {DocumentRootNode(7, metadata[1], metadata[2], metadata[3], children) :
     metadata \in RootMetadata, children \in SeqsUpTo(AstBlocks, MaxBlocks)}

\* Nodes the editor emits for what the user typed, and entries that are null
EmittedNodes ==
  {TipTapNode("heading", [NoAttrs EXCEPT !.level = 1], "array",
              <<TipTapText(Chars("My notes"), <<>>)>>, <<>>, <<>>),
   TipTapNode("heading", [NoAttrs EXCEPT !.level = 1, !.textAlign = "center"],
              "array", <<TipTapText(Chars("Easter"), <<>>)>>, <<>>, <<>>),
   TipTapNode("paragraph", [NoAttrs EXCEPT !.nodeId = 11], "array",
              <<TipTapText(Chars("Amen"), <<>>)>>, <<>>, <<>>),
   TipTapNode("paragraph", NoAttrs, "absent", <<>>, <<>>, <<>>),
   NullTipTapNode}

EditorTrees ==
  {NullTipTapDocument, TipTapDocument("absent", <<>>),
   TipTapDocument("other", <<>>)}
  \cup {TipTapDocument("array", content) :
          content \in SeqsUpTo(EmittedNodes, MaxEmitted)}

unchangedByBridge ==
  <<state, syncVars, timerVars, dragVars, creationVars, editorVars, docVars,
    mergeVars, historyVars, parseVars, detectVars, persistVars>>

\* The editor is given the document
ToEditorTree ==
  /\ editorTree' = astToTipTapJson(astRoot, conversionOptions).data
  /\ existingRoot' = NullRec
  /\ conversion' = NullRec
  /\ lastEvent' = "astToTipTapJson"
  /\ UNCHANGED <<astRoot, conversionOptions, unchangedByBridge>>

\* The editor reports a tree of its own
EditorEmits ==
  /\ editorTree' \in EditorTrees
  /\ existingRoot' = NullRec
  /\ conversion' = NullRec
  /\ lastEvent' = "editorEmits"
  /\ UNCHANGED <<astRoot, conversionOptions, unchangedByBridge>>

\* The tree of the editor is converted, with or without the known root
FromEditorTree ==
  /\ editorTree # NullRec
  /\ \E existing \in {NullRec, astRoot} :
       /\ existingRoot' = existing
       /\ conversion' = tipTapJsonToAst(editorTree, conversionOptions, existing)
  /\ lastEvent' = "tipTapJsonToAst"
  /\ UNCHANGED <<astRoot, conversionOptions, editorTree, unchangedByBridge>>

InitConvert ==
  /\ InitQuoteReview
  /\ \A id \in QuoteIds : ast[id] = QuoteBlock("John 3:16", FALSE)
  /\ astRoot \in AstRoots
  /\ conversionOptions \in ConversionOptionSets
  /\ editorTree = NullRec
  /\ existingRoot = NullRec
  /\ conversion = NullRec
  /\ InitHistory /\ InitParse /\ InitDetect /\ InitPersist

NextConvert == ToEditorTree \/ EditorEmits \/ FromEditorTree

SpecConvert == InitConvert /\ [][NextConvert]_vars

\* ------------------------------------------------------------------------
\* Properties of the converter
\* ------------------------------------------------------------------------
\* The ids of the paragraphs, headings and quotes of a document, in order
StructuralIds(children) ==
  LET IsStructural(node) ==
        node.type \in {"paragraph", "heading", "quote_block"}
      structural == SelectSeq(children, IsStructural)
  IN [i \in DOMAIN structural |-> structural[i].id]

\* The last step converted back the tree that astToTipTapJson makes of the
\* document, with the ids preserved and the document as the existing root
RoundTripDone ==
  /\ lastEvent = "tipTapJsonToAst"
  /\ editorTree = astToTipTapJson(astRoot, conversionOptions).data
  /\ existingRoot = astRoot

\* The ids of one list are all in the other, in the same order
KeptInOrder(before, after) ==
  LET WasThere(id) == \E i \in DOMAIN before : before[i] = id
  IN SelectSeq(after, WasThere) = before

\* C21: converting a document to the editor tree and back, with id
\* preservation on, keeps the id of every paragraph, heading and quote, in
\* the same order, and keeps the id of the root.
C21_RoundTripKeepsIds ==
  RoundTripDone /\ conversionOptions.preserveIds =>
    /\ conversion.success
    /\ KeptInOrder(StructuralIds(astRoot.children),
                   StructuralIds(conversion.data.children))
    /\ conversion.data.id = astRoot.id

\* The text of the nodes of a document, in order
RECURSIVE PlainText(_)
PlainText(children) ==
  Concat([i \in DOMAIN children |->
            IF children[i].type \in {"text", "interjection"}
            THEN children[i].content
            ELSE PlainText(children[i].children)])

\* C22: the text of the document, that of all its nodes in order, is the
\* same after the document went to the editor tree and back, whatever the
\* document.
C22_RoundTripKeepsText ==
  RoundTripDone =>
    /\ conversion.success
    /\ PlainText(conversion.data.children) = PlainText(astRoot.children)

\* The last step converted a tree that has a content array, and did not fail
ConvertedContentArray ==
  /\ lastEvent = "tipTapJsonToAst"
  /\ editorTree.contentIs = "array"
  /\ conversion.success

Headings(nodes) == {i \in DOMAIN nodes : nodes[i].type = "heading"}

Centered(node) == node.attrs.textAlign = "center"

\* C23: tipTapJsonToAst takes a heading for the title of the document only
\* when the heading is the first node and carries the center alignment; a
\* first heading the user typed is not taken for the title and stays in the
\* children as a heading.
C23_TitleOnlyFromCenteredFirstHeading ==
  ConvertedContentArray =>
    LET content == editorTree.content
        root == conversion.data
        firstIsHeading == Len(content) > 0 /\ content[1].type = "heading"
        absorbed == Cardinality(Headings(content))
                      - Cardinality(Headings(root.children))
    IN /\ absorbed \in {0, 1}
       /\ absorbed = 1 => firstIsHeading /\ Centered(content[1])
       /\ absorbed = 0 => root.title = ExistingField(existingRoot, "title")
       /\ firstIsHeading /\ ~Centered(content[1]) =>
            /\ root.children[1].type = "heading"
            /\ PlainText(<<root.children[1]>>) = extractText(content[1])
            /\ root.title = ExistingField(existingRoot, "title")

\* A first heading the user typed was converted, followed by a centered one
C23_Witness ==
  /\ ConvertedContentArray
  /\ Len(editorTree.content) = 2
  /\ \A i \in 1..2 : editorTree.content[i].type = "heading"
  /\ ~Centered(editorTree.content[1])
  /\ Centered(editorTree.content[2])
  /\ Cardinality(Headings(conversion.data.children)) = 2
  /\ existingRoot # NullRec
  /\ conversion.data.title = existingRoot.title

\* The last step converted a tree whose content is missing or is no array
ConvertedWithoutContent ==
  /\ lastEvent = "tipTapJsonToAst"
  /\ editorTree.type # Null
  /\ editorTree.contentIs \in {"absent", "other"}

HasNullEntry(tree) ==
  \/ tree.type = Null
  \/ /\ tree.contentIs = "array"
     /\ \E i \in DOMAIN tree.content : tree.content[i].type = Null

\* A failure result: success false, an error, and no data
IsFailure(result) ==
  ~result.success /\ result.error # Null /\ result.data = NullRec

\* C25 (as stated): the conversion of a structurally invalid editor tree,
\* one with a missing content array for example, returns a failure result.
C25_InvalidTreeFails ==
  /\ lastEvent = "tipTapJsonToAst"
  /\ HasNullEntry(editorTree) \/ editorTree.contentIs # "array"
  => IsFailure(conversion)

\* C25 (amended): the conversion of an editor tree that is null, or whose
\* content array holds a null entry, returns a failure result without data;
\* a tree whose content array is missing or is no array is no failure, it
\* gets the successful result with a warning and an empty root.
C25_NullEntryFails ==
  lastEvent = "tipTapJsonToAst" =>
    /\ HasNullEntry(editorTree) => IsFailure(conversion)
    /\ ~HasNullEntry(editorTree) /\ editorTree.contentIs # "array" =>
         /\ conversion.success
         /\ conversion.warnings # <<>>
         /\ conversion.data.children = <<>>

\* A tree whose content array holds a null entry after a paragraph was
\* converted and the conversion failed
C25_Witness ==
  /\ lastEvent = "tipTapJsonToAst"
  /\ editorTree.contentIs = "array"
  /\ Len(editorTree.content) = 2
  /\ editorTree.content[1].type = "paragraph"
  /\ editorTree.content[2].type = Null
  /\ IsFailure(conversion)

\* ------------------------------------------------------------------------
\* Document history (documentHistory.ts)
\* ------------------------------------------------------------------------
\* Array.prototype.slice(start) of JavaScript
Slice(array, start) ==
  LET len == Len(array)
      from == IF start < 0
              THEN (IF len + start > 0 THEN len + start ELSE 0)
              ELSE (IF start < len THEN start ELSE len)
  IN SubSeq(array, from + 1, len)

\* pruneEventLog that leaves the undo and redo stacks as they are
pruneEventLogKeepsStacks(documentState, maxEvents) ==
  IF Len(documentState.eventLog) <= maxEvents THEN documentState
  ELSE [documentState EXCEPT
          !.eventLog = Slice(documentState.eventLog, -maxEvents)]

pruneEventLog(documentState, maxEvents) ==
  IF Len(documentState.eventLog) <= maxEvents THEN documentState
  ELSE [documentState EXCEPT
          !.eventLog = Slice(documentState.eventLog, -maxEvents),
          !.undoStack = <<>>,
          !.redoStack = <<>>]

\* The serialized text: a sequence of tokens
Token(tag, num, chars, flag) ==
  [tag |-> tag, num |-> num, chars |-> chars, flag |-> flag]

EncodeOption(tag, opt) ==
  Token(tag, 0, IF opt = None THEN <<>> ELSE opt[1], opt # None)

DecodeOption(token) == IF token.flag THEN Some(token.chars) ELSE None

RECURSIVE EncodeNode(_)
EncodeNode(node) ==
  <<Token(node.type, node.id, node.content, node.metadata.userVerified),
    Token("level", node.level, <<>>, FALSE),
    Token("metadataId", node.metadataId, <<>>, FALSE),
    EncodeOption("reference", node.metadata.normalizedReference),
    Token("children", Len(node.children), <<>>, FALSE)>>
  \o Concat([i \in DOMAIN node.children |-> EncodeNode(node.children[i])])

EncodeRoot(root) ==
  <<Token("document", root.id, <<>>, FALSE),
    EncodeOption("title", root.title),
    EncodeOption("biblePassage", root.biblePassage),
    EncodeOption("speaker", root.speaker),
    Token("children", Len(root.children), <<>>, FALSE)>>
  \o Concat([i \in DOMAIN root.children |-> EncodeNode(root.children[i])])

EncodeList(tag, itemTag, items) ==
  <<Token(tag, Len(items), <<>>, FALSE)>>
  \o [i \in DOMAIN items |-> Token(itemTag, items[i], <<>>, FALSE)]

\* The most recent maxEvents entries of the log
Truncated(eventLog, maxEvents) ==
  IF Len(eventLog) <= maxEvents THEN eventLog
  ELSE SubSeq(eventLog, Len(eventLog) - maxEvents + 1, Len(eventLog))

compactSerialize(documentState, options) ==
  LET limit == IF options.includeEventLog THEN options.maxEvents ELSE 0
      pruned == Len(documentState.eventLog) > limit
  IN EncodeRoot(documentState.root)
     \o EncodeList("eventLog", "event",
                   Truncated(documentState.eventLog, limit))
     \o EncodeList("undoStack", "undo",
                   IF pruned THEN <<>> ELSE documentState.undoStack)
     \o EncodeList("redoStack", "redo",
                   IF pruned THEN <<>> ELSE documentState.redoStack)

\* What a parser returns: whether it read what it expected, what it read,
\* and the place of the next token
NotParsed == [ok |-> FALSE, value |-> <<>>, pos |-> 0]

Parsed(value, pos) == [ok |-> TRUE, value |-> value, pos |-> pos]

HasTags(text, pos, tags) ==
  /\ pos + Len(tags) - 1 <= Len(text)
  /\ \A i \in DOMAIN tags : text[pos + i - 1].tag = tags[i]

RECURSIVE ParseNode(_, _)
RECURSIVE ParseNodes(_, _, _)

ParseNodes(text, pos, count) ==
  IF count = 0 THEN Parsed(<<>>, pos)
  ELSE LET first == ParseNode(text, pos)
       IN IF ~first.ok THEN NotParsed
          ELSE LET more == ParseNodes(text, first.pos, count - 1)
               IN IF ~more.ok THEN NotParsed
                  ELSE Parsed(<<first.value>> \o more.value, more.pos)

ParseNode(text, pos) ==
  IF \/ pos > Len(text)
     \/ ~HasTags(text, pos, <<text[pos].tag, "level", "metadataId",
                             "reference", "children">>)
     \/ text[pos].tag \notin {"paragraph", "heading", "quote_block", "text",
                              "interjection"}
  THEN NotParsed
  ELSE LET children == ParseNodes(text, pos + 5, text[pos + 4].num)
       IN IF ~children.ok THEN NotParsed
          ELSE Parsed(AstNode(text[pos].tag, text[pos].num, text[pos].chars,
                              text[pos + 1].num, children.value,
                              [normalizedReference |->
                                 DecodeOption(text[pos + 3]),
                               userVerified |-> text[pos].flag],
                              text[pos + 2].num),
                      children.pos)

ParseRoot(text) ==
  IF ~HasTags(text, 1, <<"document", "title", "biblePassage", "speaker",
                         "children">>)
  THEN NotParsed
  ELSE LET children == ParseNodes(text, 6, text[5].num)
       IN IF ~children.ok THEN NotParsed
          ELSE Parsed(DocumentRootNode(text[1].num, DecodeOption(text[2]),
                                       DecodeOption(text[3]),
                                       DecodeOption(text[4]), children.value),
                      children.pos)

ParseList(text, pos, tag, itemTag) ==
  IF ~HasTags(text, pos, <<tag>>) THEN NotParsed
  ELSE LET count == text[pos].num
       IN IF ~HasTags(text, pos + 1, [i \in 1..count |-> itemTag])
          THEN NotParsed
          ELSE Parsed([i \in 1..count |-> text[pos + i].num], pos + count + 1)

compactDeserialize(text) ==
  LET failure == [success |-> FALSE, state |-> NullRec,
                  error |-> "Invalid document state"]
      root == ParseRoot(text)
      eventLog == ParseList(text, root.pos, "eventLog", "event")
      undoStack == ParseList(text, eventLog.pos, "undoStack", "undo")
      redoStack == ParseList(text, undoStack.pos, "redoStack", "redo")
  IN IF ~root.ok THEN failure
     ELSE IF ~eventLog.ok THEN failure
     ELSE IF ~undoStack.ok THEN failure
     ELSE IF ~redoStack.ok \/ redoStack.pos # Len(text) + 1 THEN failure
     ELSE [success |-> TRUE,
           state |-> [root |-> root.value, eventLog |-> eventLog.value,
                      undoStack |-> undoStack.value,
                      redoStack |-> redoStack.value],
           error |-> Null]

\* A history item: the serialized state and the document of the pipeline
HistoryItem(documentStateJson, sermonDocument) ==
  [documentStateJson |-> documentStateJson, sermonDocument |-> sermonDocument]

\* createHistoryItemWithState that serializes only when the log is included
createHistoryItemWithStateLogOnly(baseItem, documentState, options) ==
  [baseItem EXCEPT
     !.documentStateJson =
       IF documentState # NullRec /\ options.includeEventLog
       THEN Some(compactSerialize(documentState, options)) ELSE None]

createHistoryItemWithState(baseItem, documentState, options) ==
  [baseItem EXCEPT
     !.documentStateJson =
       IF documentState # NullRec
       THEN Some(compactSerialize(documentState, options)) ELSE None]

updateHistoryItemState(item, documentState, options) ==
  [item EXCEPT
     !.documentStateJson = Some(compactSerialize(documentState, options))]

\* item.sermonDocument?.documentState
PipelineState(item) ==
  IF item.sermonDocument = None THEN None
  ELSE item.sermonDocument[1].documentState

\* restoreFromHistoryItem that answers a failed deserialization with an
\* empty document
restoreFromHistoryItemLenient(item) ==
  IF Truthy(item.documentStateJson)
  THEN LET result == compactDeserialize(item.documentStateJson[1])
       IN [success |-> TRUE,
           state |-> IF result.success /\ result.state # NullRec
                     THEN result.state
                     ELSE [root |-> DocumentRootNode(DefaultRootId, None, None,
                                                     None, <<>>),
                           eventLog |-> <<>>, undoStack |-> <<>>,
                           redoStack |-> <<>>],
           error |-> Null, isLegacy |-> FALSE]
  ELSE IF PipelineState(item) # None
  THEN [success |-> TRUE, state |-> PipelineState(item)[1], error |-> Null,
        isLegacy |-> FALSE]
  ELSE [success |-> FALSE, state |-> NullRec,
        error |-> "No document state available in history item",
        isLegacy |-> FALSE]

restoreFromHistoryItem(item) ==
  IF Truthy(item.documentStateJson)
  THEN LET result == compactDeserialize(item.documentStateJson[1])
       IN IF result.success /\ result.state # NullRec
          THEN [success |-> TRUE, state |-> result.state, error |-> Null,
                isLegacy |-> FALSE]
          ELSE [success |-> FALSE, state |-> NullRec,
                error |-> IF result.error # Null THEN result.error
                          ELSE "Failed to deserialize document state",
                isLegacy |-> FALSE]
  ELSE IF PipelineState(item) # None
  THEN [success |-> TRUE, state |-> PipelineState(item)[1], error |-> Null,
        isLegacy |-> FALSE]
  ELSE [success |-> FALSE, state |-> NullRec,
        error |-> "No document state available in history item",
        isLegacy |-> FALSE]

hasNewFormatState(item) ==
  Truthy(item.documentStateJson) \/ PipelineState(item) # None

\* NullRec stands for null
migrateHistoryItem(item) == IF hasNewFormatState(item) THEN item ELSE NullRec

\* ------------------------------------------------------------------------
\* Specification of the document history
\* ------------------------------------------------------------------------
HistoryRoots ==
  {DocumentRootNode(7, None, None, None, <<>>),
   DocumentRootNode(8, Some(Chars("Easter")), Some(Chars("John 3:16")),
                    Some(Chars("Ann")),
                    <<ParagraphNode(11, <<TextNode(41, Chars("Amen"))>>),
                      QuoteBlockNode(31,
                        [normalizedReference |-> Some(Chars("John 3:16")),
                         userVerified |-> TRUE],
                        <<TextNode(45, Chars("Amen")),
                          InterjectionNode(46, Chars("hallelujah"), 47)>>)>>)}

\* The event log holds the events 1, 2, ... in the order they were appended
DocumentStates ==
  [root : HistoryRoots,
   eventLog : {[i \in 1..n |-> i] : n \in 0..MaxLog},
   undoStack : {<<>>, <<1>>},
   redoStack : {<<>>, <<2>>}]

\* maxEvents up to one more than the longest log, and the default of 100
SaveOptionSets ==
  [includeEventLog : BOOLEAN, maxEvents : 0..(MaxLog + 1)]
  \cup {[includeEventLog |-> TRUE, maxEvents |-> 100]}

\* The state the pipeline attached to a document
PipelineDocumentState ==
  [root |-> DocumentRootNode(9, None, None, None, <<>>), eventLog |-> <<>>,
   undoStack |-> <<>>, redoStack |-> <<>>]

\* Items a new state is saved with: a transcript alone, and a document of
\* the pipeline
BaseItems ==
  {HistoryItem(None, None),
   HistoryItem(None, Some([documentState |-> Some(PipelineDocumentState)]))}

\* Items found in the store: legacy records without a state, with an empty
\* or a damaged serialized state, and records of the pipeline
StoredItems ==
  {HistoryItem(None, None),
   HistoryItem(None, Some([documentState |-> None])),
   HistoryItem(Some(<<>>), None),
   HistoryItem(Some(<<Token("document", 7, <<>>, FALSE)>>), None),
   HistoryItem(Some(<<Token("document", 7, <<>>, FALSE)>>),
               Some([documentState |-> Some(PipelineDocumentState)])),
   HistoryItem(None, Some([documentState |-> Some(PipelineDocumentState)]))}

unchangedByHistory ==
  <<state, syncVars, timerVars, dragVars, creationVars, editorVars, docVars,
    mergeVars, bridgeVars, parseVars, detectVars, persistVars>>

PruneEventLog ==
  /\ editedState' = pruneEventLog(editedState, saveOptions.maxEvents)
  /\ lastEvent' = "pruneEventLog"
  /\ UNCHANGED <<saveOptions, historyItem, restored, unchangedByHistory>>

\* A new item is saved, with the state or with null for a document that has
\* no state
SaveToHistory ==
  /\ \E baseItem \in BaseItems, documentState \in {editedState, NullRec} :
       historyItem' =
         createHistoryItemWithState(baseItem, documentState, saveOptions)
  /\ restored' = NullRec
  /\ lastEvent' = "createHistoryItemWithState"
  /\ UNCHANGED <<editedState, saveOptions, unchangedByHistory>>

UpdateHistory ==
  /\ historyItem # NullRec
  /\ historyItem' =
       updateHistoryItemState(historyItem, editedState, saveOptions)
  /\ restored' = NullRec
  /\ lastEvent' = "updateHistoryItemState"
  /\ UNCHANGED <<editedState, saveOptions, unchangedByHistory>>

\* An item of the store is selected
LoadStoredItem ==
  /\ historyItem' \in StoredItems
  /\ restored' = NullRec
  /\ lastEvent' = "loadStoredItem"
  /\ UNCHANGED <<editedState, saveOptions, unchangedByHistory>>

RestoreFromHistory ==
  /\ historyItem # NullRec
  /\ restored' = restoreFromHistoryItem(historyItem)
  /\ lastEvent' = "restoreFromHistoryItem"
  /\ UNCHANGED <<editedState, saveOptions, historyItem, unchangedByHistory>>

\* The restored state becomes the state that is edited and saved
OpenRestored ==
  /\ restored # NullRec
  /\ restored.success
  /\ editedState' = restored.state
  /\ lastEvent' = "openRestored"
  /\ UNCHANGED <<saveOptions, historyItem, restored, unchangedByHistory>>

InitSaved ==
  /\ InitQuoteReview
  /\ \A id \in QuoteIds : ast[id] = QuoteBlock("John 3:16", FALSE)
  /\ InitBridge /\ InitParse /\ InitDetect /\ InitPersist
  /\ editedState \in DocumentStates
  /\ saveOptions \in SaveOptionSets
  /\ historyItem = NullRec
  /\ restored = NullRec

NextHistory ==
  \/ PruneEventLog
  \/ SaveToHistory
  \/ UpdateHistory
  \/ LoadStoredItem
  \/ RestoreFromHistory
  \/ OpenRestored

SpecHistory == InitSaved /\ [][NextHistory]_vars

\* ------------------------------------------------------------------------
\* Properties of the document history
\* ------------------------------------------------------------------------
\* The step is a call of pruneEventLog
PruneStep == lastEvent' = "pruneEventLog"

\* The last count entries of a log
MostRecent(eventLog, count) ==
  SubSeq(eventLog, Len(eventLog) - count + 1, Len(eventLog))

\* C26: after pruning with the limit maxEvents the log holds the most recent
\* min(length, maxEvents) entries in their order, the oldest ones being the
\* ones dropped, for every maxEvents >= 0.
C26_PruneKeepsMostRecent ==
  [][PruneStep =>
       LET eventLog == editedState.eventLog
           maxEvents == saveOptions.maxEvents
           kept == IF Len(eventLog) < maxEvents THEN Len(eventLog)
                   ELSE maxEvents
       IN editedState'.eventLog = MostRecent(eventLog, kept)]_vars

\* The log is longer than the limit: pruning has entries to drop
ExceedsLimit == Len(editedState.eventLog) > saveOptions.maxEvents

LacksState(item) ==
  ~Truthy(item.documentStateJson) /\ PipelineState(item) = None

\* The item has a serialized state that compactDeserialize rejects
FailsToDeserialize(item) ==
  /\ Truthy(item.documentStateJson)
  /\ ~compactDeserialize(item.documentStateJson[1]).success

\* A complete DocumentState
IsDocumentState(documentState) ==
  /\ documentState # NullRec
  /\ DOMAIN documentState = {"root", "eventLog", "undoStack", "redoStack"}
  /\ documentState.root.type = "document"

\* C28: restoring a history item that has no structured DocumentState, or
\* whose stored state does not deserialize, is a reported failure, success
\* false with an error, that carries no state; a success always carries a
\* whole DocumentState, never an empty or partial one; and an item without
\* a state is not migrated.
C28_RestoreFailsWithoutState ==
  lastEvent = "restoreFromHistoryItem" =>
    /\ LacksState(historyItem) \/ FailsToDeserialize(historyItem) =>
         /\ ~restored.success
         /\ restored.error # Null
         /\ restored.state = NullRec
    /\ restored.success => IsDocumentState(restored.state)
    /\ LacksState(historyItem) => migrateHistoryItem(historyItem) = NullRec

\* An item whose serialized state is damaged was restored, and failed,
\* although the item also holds a state of the pipeline
C28_Witness ==
  /\ lastEvent = "restoreFromHistoryItem"
  /\ FailsToDeserialize(historyItem)
  /\ PipelineState(historyItem) # None
  /\ ~restored.success
  /\ restored.state = NullRec

\* The item was made of the edited state with the options in force
SavedFromEditedState(baseItem) ==
  historyItem = createHistoryItemWithState(baseItem, editedState, saveOptions)

ReferenceTexts ==
  {"John 3:16", "1 Corinthians 13:4-7", "Genesis 1:1",
   "2 Timothy 3:16-17", "invalid", "John", "John 3", "3:16", "",
   "  John   3:16  ", "John3:16", "John 3:16-18", "John 13:4-", "John 3:",
   "John :16", "John 3-16", "John 3:16 -18", "John 3:1a", "John 10:05",
   "John\t3:16 ", "1 John 3:16", "1 John3:16", "1 John 3:16-18",
   "1 John 13:4-", "1 John 3:", "1 John :16", "1 John 3-16",
   "1 John 3:16 -18", "1 John 3:1a", "1 John 10:05", "1 John\t3:16 ",
   "3John 3:16", "3John3:16", "3John 3:16-18", "3John 13:4-", "3John 3:",
   "3John :16", "3John 3-16", "3John 3:16 -18", "3John 3:1a",
   "3John 10:05", "3John\t3:16 ", "Song of Songs 3:16",
   "Song of Songs3:16", "Song of Songs 3:16-18", "Song of Songs 13:4-",
   "Song of Songs 3:", "Song of Songs :16", "Song of Songs 3-16",
   "Song of Songs 3:16 -18", "Song of Songs 3:1a", "Song of Songs 10:05",
   "Song of Songs\t3:16 ", "4 Ezra 3:16", "4 Ezra3:16", "4 Ezra 3:16-18",
   "4 Ezra 13:4-", "4 Ezra 3:", "4 Ezra :16", "4 Ezra 3-16",
   "4 Ezra 3:16 -18", "4 Ezra 3:1a", "4 Ezra 10:05", "4 Ezra\t3:16 ",
   "1  Kings 3:16", "1  Kings3:16", "1  Kings 3:16-18", "1  Kings 13:4-",
   "1  Kings 3:", "1  Kings :16", "1  Kings 3-16", "1  Kings 3:16 -18",
   "1  Kings 3:1a", "1  Kings 10:05", "1  Kings\t3:16 ",
   " 1 Corinthians 13:4-7", "John 3:16-", "John 3:16-17-18",
   "1 2 John 3:16", "John 3 :16", "John: 3:16", "12 John 3:16"}

unchangedByParse ==
  <<state, syncVars, timerVars, dragVars, creationVars, editorVars, docVars,
    mergeVars, bridgeVars, historyVars, detectVars, persistVars>>

ParseReference ==
  /\ parsed = NullRec
  /\ parsed' = parseReference(referenceText)
  /\ lastEvent' = "parseReference"
  /\ UNCHANGED referenceText
  /\ UNCHANGED unchangedByParse

InitReference ==
  /\ InitQuoteReview
  /\ \A id \in QuoteIds : ast[id] = QuoteBlock("John 3:16", FALSE)
  /\ InitBridge /\ InitHistory /\ InitDetect /\ InitPersist
  /\ referenceText \in ReferenceTexts
  /\ parsed = NullRec

NextParse == ParseReference

SpecParse == InitReference /\ [][NextParse]_vars

\* ------------------------------------------------------------------------
\* Properties of parseReference
\* ------------------------------------------------------------------------
\* Every character of cs from position from to position to is in set
AllIn(cs, from, to, set) == \A i \in from..to : cs[i] \in set

\* A book name: an optional 1, 2 or 3, optional white space, then words of
\* letters separated by white space
IsBookName(cs) ==
  LET words == TrimStart(IF cs # <<>> /\ cs[1] \in {"1", "2", "3"}
                         THEN Tail(cs) ELSE cs)
  IN /\ words # <<>>
     /\ AllIn(words, 1, Len(words), Letters \cup WhiteSpace)
     /\ words[1] \in Letters
     /\ words[Len(words)] \in Letters

\* The ways of reading cs as book, chapter ":" verse, or book, chapter ":"
\* verse "-" verse: the book ends at bookEnd, the chapter starts at
\* chapterStart, the colon is at colon, the dash at dash (0 without one)
ReferenceSplits(cs) ==
  {split \in [bookEnd : 1..Len(cs), chapterStart : 1..Len(cs),
              colon : 1..Len(cs), dash : 0..Len(cs)] :
     /\ split.bookEnd < split.chapterStart
     /\ split.chapterStart < split.colon
     /\ split.colon < Len(cs)
     /\ IsBookName(SubSeq(cs, 1, split.bookEnd))
     /\ AllIn(cs, split.bookEnd + 1, split.chapterStart - 1, WhiteSpace)
     /\ AllIn(cs, split.chapterStart, split.colon - 1, Digits)
     /\ cs[split.colon] = ":"
     /\ IF split.dash = 0
        THEN AllIn(cs, split.colon + 1, Len(cs), Digits)
        ELSE /\ split.colon + 1 < split.dash
             /\ split.dash < Len(cs)
             /\ cs[split.dash] = "-"
             /\ AllIn(cs, split.colon + 1, split.dash - 1, Digits)
             /\ AllIn(cs, split.dash + 1, Len(cs), Digits)}

\* The number a run of decimal digits writes
DecimalValue(digits) ==
  LET Digit(c) == CHOOSE n \in 0..9 : ToString(n) = c
      upTo[i \in 0..Len(digits)] ==
        IF i = 0 THEN 0 ELSE 10 * upTo[i - 1] + Digit(digits[i])
  IN upTo[Len(digits)]

\* What a reference read as split stands for
ComponentsOf(cs, split) ==
  [valid |-> TRUE,
   book |-> Some(SubSeq(cs, 1, split.bookEnd)),
   chapter |->
     Some(DecimalValue(SubSeq(cs, split.chapterStart, split.colon - 1))),
   verseStart |->
     Some(DecimalValue(SubSeq(cs, split.colon + 1,
                              IF split.dash = 0 THEN Len(cs)
                              ELSE split.dash - 1))),
   verseEnd |->
     IF split.dash = 0 THEN None
     ELSE Some(DecimalValue(SubSeq(cs, split.dash + 1, Len(cs))))]

\* C30: parseReference answers valid:true exactly for the strings that,
\* once trimmed, read as a book name, a chapter, a colon, a verse and
\* optionally a dash and a last verse, and then gives the book, the chapter,
\* the first verse and the last verse (undefined without a dash). "John 3:16"
\* gives John, 3, 16 and no last verse; "1 Corinthians 13:4-7" gives
\* 1 Corinthians, 13, 4 and 7; "John", "3:16" and "" are not valid.
C30_ParseReferenceFollowsGrammar ==
  parsed # NullRec =>
    LET cs == Trim(Chars(referenceText))
    IN /\ parsed.valid <=> ReferenceSplits(cs) # {}
       /\ \A split \in ReferenceSplits(cs) : parsed = ComponentsOf(cs, split)
       /\ referenceText = "John 3:16" =>
            parsed = [valid |-> TRUE, book |-> Some(Chars("John")),
                      chapter |-> Some(3), verseStart |-> Some(16),
                      verseEnd |-> None]
       /\ referenceText = "1 Corinthians 13:4-7" =>
            parsed = [valid |-> TRUE, book |-> Some(Chars("1 Corinthians")),
                      chapter |-> Some(13), verseStart |-> Some(4),
                      verseEnd |-> Some(7)]
       /\ referenceText \in {"John", "3:16", ""} => ~parsed.valid

\* A reference with a last verse has been parsed
C30_Witness ==
  /\ referenceText = "1 Corinthians 13:4-7"
  /\ parsed # NullRec
  /\ parsed.valid
  /\ parsed.verseEnd = Some(7)

\* ------------------------------------------------------------------------
\* detectInterjections on its own
\* ------------------------------------------------------------------------
\* Texts handed to detectInterjections, as their words and punctuation marks:
\* the texts of the tests, texts with lower-confidence phrases, the empty text
DetectionTexts ==
  QuoteTexts \cup
  {<<>>,
   <<"Blessed", "are", "the", "poor", ",", "amen", ",", "in", "spirit",
     ",", "hallelujah", ",", "for", "theirs">>,
   <<"For", "God", "so", "loved", "the", "world", "that", "he", "gave",
     "his", "only", "son">>,
   <<"Wow", ",", "that", "is", "amazing", ".", "Amen", "!">>,
   <<"He", "is", "risen", "!", "Hallelujah", "!", "He", "is", "risen",
     "indeed", "!">>,
   <<"glory", "be">>,
   <<"come", "on", ",", "that's", "right">>,
   <<"praise", "the", "lord", ",", "oh", "yes", "lord">>,
   <<"hallelujah", "amen">>}

\* Options of the hook: threshold (AUTO_DETECT_THRESHOLD by default) and
\* highConfidenceOnly (false by default)
DetectionOptionSets ==
  [threshold : {0, AUTO_DETECT_THRESHOLD, 60, HIGH_CONFIDENCE_THRESHOLD, 95,
                100},
   highConfidenceOnly : BOOLEAN]

unchangedByDetection ==
  <<state, syncVars, timerVars, dragVars, creationVars, editorVars, docVars,
    mergeVars, bridgeVars, historyVars, parseVars, persistVars>>

DetectInterjections ==
  /\ detected = NullRec
  /\ detected' = [candidates |->
                    detectInterjections(
                      detectionInput.text,
                      detectionInput.options.threshold,
                      detectionInput.options.highConfidenceOnly)]
  /\ lastEvent' = "detectInterjections"
  /\ UNCHANGED detectionInput
  /\ UNCHANGED unchangedByDetection

InitDetection ==
  /\ InitQuoteReview
  /\ \A id \in QuoteIds : ast[id] = QuoteBlock("John 3:16", FALSE)
  /\ InitBridge /\ InitHistory /\ InitParse /\ InitPersist
  /\ detectionInput \in [text : DetectionTexts, options : DetectionOptionSets]
  /\ detected = NullRec

NextDetect == DetectInterjections

SpecDetect == InitDetection /\ [][NextDetect]_vars

\* ------------------------------------------------------------------------
\* Properties of detectInterjections
\* ------------------------------------------------------------------------
\* Some phrase of some pattern stands somewhere in the text
HasKeyword(words) ==
  \E i \in DOMAIN words, p \in DOMAIN INTERJECTION_PATTERNS :
    \E phrase \in INTERJECTION_PATTERNS[p].phrases : PhraseAt(words, i, phrase)

\* The threshold the options configure: the high-confidence one when only
\* high-confidence matches are asked for, the threshold option otherwise
ConfiguredThreshold(options) ==
  IF options.highConfidenceOnly THEN HIGH_CONFIDENCE_THRESHOLD
  ELSE options.threshold

\* The text of the test 'should detect multiple interjections in order'
Beatitude ==
  <<"Blessed", "are", "the", "poor", ",", "amen", ",", "in", "spirit",
    ",", "hallelujah", ",", "for", "theirs">>

handleEscape ==
  /\ IF state.boundaryDrag.isDragging
     THEN /\ dispatch(Act("CANCEL_BOUNDARY_DRAG", Null))
          /\ lastEvent' = "escapeCancelsDrag"
     ELSE IF state.boundaryEdit.isActive
     THEN /\ dispatch(Act("EXIT_BOUNDARY_EDIT_MODE", Null))
          /\ lastEvent' = "escapeExitsBoundaryEdit"
     ELSE IF state.interjectionEdit.isActive
     THEN /\ dispatch(Act("EXIT_INTERJECTION_EDIT_MODE", Null))
          /\ lastEvent' = "escapeExitsInterjectionEdit"
     ELSE /\ UNCHANGED state
          /\ lastEvent' = "escapeUnhandled"
  /\ timers' = timers
  /\ delivered' = NullRec
  /\ preview' = NullRec
  /\ cleared' = {}
  /\ UNCHANGED <<mounted, commitTimerRef, lastCommittedOffsetRef>>
  /\ UNCHANGED unchangedByDrag

\* ------------------------------------------------------------------------
\* Specification of a drag next to removals and Escape
\* ------------------------------------------------------------------------
\* startDrag from the handle of a quote that is in the list
StartDragOfListedQuote ==
  /\ startDrag
  /\ state'.boundaryDrag.quoteId \in QuoteIdsOf(state)

NextDrag ==
  \/ Pristine /\ MountBoundaryMutation
  \/ LoadQuotes
  \/ removeQuote
  \/ StartDragOfListedQuote
  \/ updateDrag
  \/ endDrag
  \/ FireCommitTimer
  \/ cancelDrag
  \/ handleEscape

SpecDrag == InitHooks /\ [][NextDrag]_vars

\* ------------------------------------------------------------------------
\* Properties of the commit timer next to removals, Escape and new drags
\* ------------------------------------------------------------------------
\* The step is the commit timer firing and handing a result to
\* onBoundaryCommit
CommitDelivered == lastEvent' = "fireCommitTimer" /\ delivered' # NullRec

\* C32: no boundary commit is delivered for a quote that is not in the quotes
\* list: when the dragged quote was removed in the debounce window after
\* endDrag, the pending commit and its merge request are dropped.
C32_NoCommitForRemovedQuote ==
  [][lastEvent = "removeQuote" /\ CommitDelivered =>
       delivered'.quoteId \in QuoteIdsOf(state)]_vars

\* C33: when Escape (handleEscape dispatching cancelBoundaryDrag) has
\* cancelled a drag in the debounce window after endDrag, the commit that
\* endDrag scheduled is not delivered.
C33_EscapeDropsPendingCommit ==
  [][lastEvent = "escapeCancelsDrag" => ~CommitDelivered]_vars

\* C34: when a new drag was started in the debounce window of the previous
\* endDrag, the firing of the earlier timer leaves the new drag and the
\* committed-offset baseline of the new drag as they are.
C34_EarlierTimerSparesNewDrag ==
  [][lastEvent = "startDrag" /\ lastEvent' = "fireCommitTimer" =>
       /\ state'.boundaryDrag = state.boundaryDrag
       /\ lastCommittedOffsetRef' = lastCommittedOffsetRef]_vars

\* ------------------------------------------------------------------------
\* Specification of the creation dialog
\* ------------------------------------------------------------------------
\* The reference field and the non-biblical switch are shown only while a
\* creation is in progress
NextDialog ==
  \/ MountQuoteCreation
  \/ UnmountQuoteCreation
  \/ startCreation
  \/ state.creation.isCreating /\ updateReference
  \/ state.creation.isCreating /\ setNonBiblicalFlag
  \/ FireLookupTimer
  \/ LookupSettles
  \/ confirm
  \/ cancel

SpecDialog == InitHooks /\ [][NextDialog]_vars

\* C35: whenever no quote creation is in progress the creation slice has its
\* initial value, with lookupResult null and isLookingUp false, also when a
\* lookup was in flight or a lookup timer was pending at the moment the
\* creation was cancelled or confirmed.
C35_IdleCreationSliceIsInitial ==
  ~state.creation.isCreating => state.creation = initialCreationState

\* ------------------------------------------------------------------------
\* Specification of removing a quote while it is being edited: the editing
\* modes are only ever entered for a quote of the list
\* ------------------------------------------------------------------------
StartEditingListedQuote ==
  /\ startEditing
  /\ state'.interjectionEdit.quoteId \in QuoteIdsOf(state)

NextEditing ==
  \/ LoadQuotes
  \/ removeQuote
  \/ enterBoundaryEditMode
  \/ exitBoundaryEditMode
  \/ startBoundaryDrag
  \/ endBoundaryDrag
  \/ StartEditingListedQuote
  \/ exitEditing

SpecEditing == InitHooks /\ [][NextEditing]_vars

RefersToListedQuote(s, quoteId) == quoteId = NullId \/ quoteId \in QuoteIdsOf(s)

\* C36: after a quote is removed, no editing slice still refers to it:
\* boundaryEdit.quoteId, boundaryDrag.quoteId and interjectionEdit.quoteId
\* are each null or the id of a quote in the current list.
C36_EditingSlicesReferToListedQuotes ==
  [][lastEvent' = "removeQuote" =>
       /\ RefersToListedQuote(state', state'.boundaryEdit.quoteId)
       /\ RefersToListedQuote(state', state'.boundaryDrag.quoteId)
       /\ RefersToListedQuote(state', state'.interjectionEdit.quoteId)]_vars

\* ------------------------------------------------------------------------
\* QuoteAwareSermonEditor: the Escape key. Focus is cleared, boundary-edit
\* mode is left when a drag is in progress, and a mounted QuoteBoundaryEditor
\* is no longer rendered, so its effect cleanup reports the edit end
\* ------------------------------------------------------------------------
EditorEscape ==
  LET afterKey == IF state.boundaryDrag.isDragging
                  THEN quoteReviewReducer(state,
                                          Act("EXIT_BOUNDARY_EDIT_MODE", Null))
                  ELSE state
      unmounts == "boundaryEditor" \in mounted
  IN /\ editorFocusedQuoteId' = NullId
     /\ state' = IF unmounts
                 THEN quoteReviewReducer(
                        quoteReviewReducer(afterKey,
                                           Act("COMMIT_BOUNDARY_CHANGE", Null)),
                        Act("EXIT_BOUNDARY_EDIT_MODE", Null))
                 ELSE afterKey
     /\ timers' = IF unmounts THEN clearIfSet(timers, debounceTimerRef)
                  ELSE timers
     /\ cleared' = IF unmounts THEN ClearedBy(debounceTimerRef) ELSE {}
     /\ mounted' = mounted \ {"boundaryEditor"}
     /\ debounceTimerRef' = IF unmounts THEN NullId ELSE debounceTimerRef
     /\ dragHandle' = IF unmounts THEN Null ELSE dragHandle
     /\ lastEvent' = "editorEscape"
     /\ UNCHANGED unchangedByEditor

\* ------------------------------------------------------------------------
\* Specification of the end of a drag: drags are started by the hook and by
\* the boundary editor; a pending commit timer fires unless it is cleared
\* ------------------------------------------------------------------------
NextDragEnd ==
  \/ MountBoundaryMutation
  \/ UnmountBoundaryMutation
  \/ startDrag
  \/ endDrag
  \/ FireCommitTimer
  \/ EditorQuoteClick
  \/ EditorHandleEditBoundaries
  \/ UnmountBoundaryEditor
  \/ EditorEscape
  \/ handleEscape

SpecDragEnd ==
  InitHooks /\ [][NextDragEnd]_vars /\ WF_vars(FireCommitTimer)

\* The user has finished the edit while the drag is still recorded
EditFinished ==
  /\ state.boundaryDrag.isDragging
  /\ lastEvent \in {"endDrag", "unmountBoundaryEditor", "editorEscape"}

\* C37: every boundary drag eventually ends: once a drag has been started
\* and the user has finished the edit (endDrag was called, or the boundary
\* editor reported edit end, or Escape was pressed), boundaryDrag.isDragging
\* eventually becomes false.
C37_EveryDragEnds == EditFinished ~> ~state.boundaryDrag.isDragging

\* ------------------------------------------------------------------------
\* Specification of the focused quote: the list is replaced and shortened
\* while the keyboard navigation moves the focus over listed quotes
\* ------------------------------------------------------------------------
\* A list a caller of setQuotes passes: the items of some quotes, in
\* document order
RECURSIVE QuoteItemsOf(_, _, _)
QuoteItemsOf(ids, reviewed, id) ==
  IF id > MaxQuotes THEN <<>>
  ELSE (IF id \in ids
        THEN <<[id |-> id, reference |-> "John 3:16",
                isNonBiblical |-> FALSE, isReviewed |-> id \in reviewed]>>
        ELSE <<>>) \o QuoteItemsOf(ids, reviewed, id + 1)

setQuotes ==
  \E ids \in SUBSET QuoteIds, reviewed \in SUBSET QuoteIds :
    /\ dispatch(Act("SET_QUOTES", QuoteItemsOf(ids, reviewed, 1)))
    /\ lastEvent' = "setQuotes"
    /\ UNCHANGED outsideSync
    /\ UNCHANGED syncVars

navigatePrevious ==
  LET currentIndex == getCurrentIndex
      prevIndex == IF currentIndex > 0 THEN currentIndex - 1
                   ELSE Len(state.quotes) - 1
  IN /\ prevIndex + 1 \in DOMAIN state.quotes
     /\ dispatch(Act("SET_FOCUSED_QUOTE", state.quotes[prevIndex + 1].id))
     /\ lastEvent' = "navigatePrevious"
     /\ UNCHANGED outsideSync
     /\ UNCHANGED syncVars

navigateFirst ==
  /\ 1 \in DOMAIN state.quotes
  /\ dispatch(Act("SET_FOCUSED_QUOTE", state.quotes[1].id))
  /\ lastEvent' = "navigateFirst"
  /\ UNCHANGED outsideSync
  /\ UNCHANGED syncVars

navigateLast ==
  /\ Len(state.quotes) \in DOMAIN state.quotes
  /\ dispatch(Act("SET_FOCUSED_QUOTE", state.quotes[Len(state.quotes)].id))
  /\ lastEvent' = "navigateLast"
  /\ UNCHANGED outsideSync
  /\ UNCHANGED syncVars

\* The first unverified quote after the focused one, wrapping around
navigateNextUnverified ==
  LET currentIndex == getCurrentIndex
      n == Len(state.quotes)
      after == {i \in (currentIndex + 2)..n : ~state.quotes[i].isReviewed}
      upTo == {i \in 1..(currentIndex + 1) : ~state.quotes[i].isReviewed}
      Min(S) == CHOOSE i \in S : \A j \in S : i <= j
  IN /\ after \cup upTo # {}
     /\ dispatch(Act("SET_FOCUSED_QUOTE",
                     state.quotes[IF after # {} THEN Min(after)
                                  ELSE Min(upTo)].id))
     /\ lastEvent' = "navigateNextUnverified"
     /\ UNCHANGED outsideSync
     /\ UNCHANGED syncVars

\* Effect of useQuoteKeyboardNavigation: the first quote takes the focus
\* when no quote has it
FocusFirstQuote ==
  /\ Len(state.quotes) > 0
  /\ state.review.focusedQuoteId = NullId
  /\ dispatch(Act("SET_FOCUSED_QUOTE", state.quotes[1].id))
  /\ lastEvent' = "focusFirstQuote"
  /\ UNCHANGED outsideSync
  /\ UNCHANGED syncVars

NextFocus ==
  \/ setQuotes
  \/ removeQuote
  \/ setFocusedQuote
  \/ navigateNext
  \/ navigatePrevious
  \/ navigateFirst
  \/ navigateLast
  \/ navigateNextUnverified
  \/ FocusFirstQuote
  \/ toggleVerify

SpecFocus == InitHooks /\ [][NextFocus]_vars

\* C38: focusedQuoteId is always null or the id of a quote in the current
\* list, in every state reached by navigation, removeQuote and setQuotes,
\* provided focus is only ever set to a listed quote.
C38_FocusedQuoteIsListed ==
  \/ state.review.focusedQuoteId = NullId
  \/ state.review.focusedQuoteId \in QuoteIdsOf(state)

\* ------------------------------------------------------------------------
\* QuoteReviewProvider: persistence of the review state in localStorage,
\* one key per document id
\* ------------------------------------------------------------------------
\* Array.from(set); the ids are listed in ascending order
RECURSIVE ArrayFrom(_)
ArrayFrom(set) ==
  IF set = {} THEN <<>>
  ELSE LET first == CHOOSE x \in set : \A y \in set : x <= y
       IN <<first>> \o ArrayFrom(set \ {first})

\* The PersistedQuoteReviewState that persistState builds from a state
PersistedOf(s) ==
  [panelOpen |-> s.review.panelOpen,
   panelWidth |-> s.review.panelWidth,
   reviewedQuoteIds |-> ArrayFrom(s.review.reviewedQuoteIds),
   bannerDismissed |-> s.review.bannerDismissed]

\* localStorage.setItem(key, JSON.stringify(persisted))
persistState(s, docId) == [key |-> docId, value |-> PersistedOf(s)]

RECURSIVE SetItems(_, _)
SetItems(store, items) ==
  IF items = <<>> THEN store
  ELSE SetItems([store EXCEPT ![Head(items).key] = Head(items).value],
                Tail(items))

unchangedByPersist ==
  <<syncVars, timerVars, dragVars, creationVars, editorVars, docVars,
    mergeVars, bridgeVars, historyVars, parseVars, detectVars>>

\* A dispatch of the provider followed by the auto-persist effect, which
\* runs again when persistState was rebuilt
DispatchAndPersist(a, rebuilt) ==
  /\ dispatch(a)
  /\ writes' = IF documentId # Null /\ rebuilt
               THEN <<persistState(quoteReviewReducer(state, a), documentId)>>
               ELSE <<>>
  /\ storage' = SetItems(storage, writes')
  /\ UNCHANGED documentId
  /\ UNCHANGED unchangedByPersist

\* MARK_QUOTE_REVIEWED always makes a new Set
markQuoteReviewed ==
  \E quoteId \in QuoteIds :
    /\ DispatchAndPersist(Act("MARK_QUOTE_REVIEWED", quoteId), TRUE)
    /\ lastEvent' = "markQuoteReviewed"

togglePanel ==
  /\ DispatchAndPersist(Act("TOGGLE_PANEL", Null), TRUE)
  /\ lastEvent' = "togglePanel"

dismissBanner ==
  /\ DispatchAndPersist(Act("DISMISS_BANNER", Null),
                        ~state.review.bannerDismissed)
  /\ lastEvent' = "dismissBanner"

\* The provider is rendered with another documentId. The load effect and the
\* auto-persist effect of that render both see the state of the render; a
\* LOAD_PERSISTED_STATE dispatched by the first rebuilds persistState, and
\* the auto-persist effect runs once more after the next render
SwitchDocument ==
  \E docId \in DocumentIds \cup {Null} :
    LET saved == storage[docId]
        loads == docId # Null /\ saved # NullRec
        loaded == IF docId = Null THEN initialState
                  ELSE IF loads
                  THEN quoteReviewReducer(state,
                                          Act("LOAD_PERSISTED_STATE", saved))
                  ELSE state
    IN /\ docId # documentId
       /\ documentId' = docId
       /\ state' = loaded
       /\ writes' = IF docId = Null THEN <<>>
                    ELSE <<persistState(state, docId)>> \o
                         (IF loads THEN <<persistState(loaded, docId)>>
                          ELSE <<>>)
       /\ storage' = SetItems(storage, writes')
       /\ lastEvent' = "switchDocument"
       /\ UNCHANGED unchangedByPersist

NextPersist ==
  \/ SwitchDocument
  \/ markQuoteReviewed
  \/ togglePanel
  \/ dismissBanner

SpecPersist == InitHooks /\ [][NextPersist]_vars

\* What a document's key holds for the document itself: its saved state,
\* or the initial review state when nothing was saved
OwnReviewState(docId) ==
  IF storage[docId] # NullRec THEN storage[docId]
  ELSE PersistedOf(initialState)

\* C40: review state is persisted per document: switching the provider from
\* one document id to another never writes the previous document's
\* reviewed-quote ids, panel state or banner-dismissed flag under the new
\* document's storage key, including when the new document has no saved
\* state.
C40_PersistedPerDocument ==
  [][ /\ lastEvent' = "switchDocument"
      /\ documentId # Null
      /\ documentId' # Null
      => \A i \in DOMAIN writes' :
           /\ writes'[i].key = documentId'
           /\ writes'[i].value = PersistedOf(state)
              => writes'[i].value = OwnReviewState(documentId') ]_vars

\* ------------------------------------------------------------------------
\* Specification of the two records of a review: the isReviewed flag of a
\* quote and the reviewedQuoteIds set
\* ------------------------------------------------------------------------
MarkListedQuoteReviewed ==
  /\ markQuoteReviewed
  /\ state'.review.reviewedQuoteIds \subseteq
       state.review.reviewedQuoteIds \cup QuoteIdsOf(state)

NextReviewed ==
  \/ LoadQuotes
  \/ setFocusedQuote
  \/ toggleVerify
  \/ PanelHandleVerify
  \/ MarkListedQuoteReviewed
  \/ removeQuote
  \/ SwitchDocument

SpecReviewed == InitHooks /\ [][NextReviewed]_vars

\* C39: a quote's id is in review.reviewedQuoteIds exactly when the quote's
\* isReviewed flag is true, after every sequence of verify toggles,
\* mark-reviewed actions, removals and loads of persisted state.
C39_ReviewedIdsMatchFlags ==
  \A i \in DOMAIN state.quotes :
    state.quotes[i].id \in state.review.reviewedQuoteIds
      <=> state.quotes[i].isReviewed

====
